---- MODULE Spec2Model ----
(***************************************************************************)
(* State-machine model of the CryptoJackal execution core:                 *)
(*   - the order execution queue      (src/src/core/order_queue/mod.rs)    *)
(*   - the transaction signing flow   (src/src/core/transaction_signing.rs)*)
(*   - the gas optimizer              (src/src/core/gas_optimizer.rs)      *)
(*   - the price feed aggregation     (src/src/core/price_feed.rs)         *)
(* Each subsystem has its own specification over its own variables; the    *)
(* variables of the other subsystems stay at their initial values.         *)
(*                                                                         *)
(* Units.  Floating point quantities are modelled as exact rationals over  *)
(* a fixed denominator: expected_profit in hundredths, gas_used_ratio in   *)
(* hundredths, prices in hundredths of a dollar.  Fee amounts (U256 wei in *)
(* the source) are counted in gwei.                                        *)
(***************************************************************************)
EXTENDS Integers, Sequences, FiniteSets, TLC

(***************************************************************************)
(* Bounds of the model                                                     *)
(***************************************************************************)
MaxTime == 1            \* the wall clock runs from StartTime to StartTime + MaxTime
max_concurrent_executions == 1   \* QueueConfig.max_concurrent_executions of the modelled queue
max_retry_attempts == 2          \* QueueConfig.max_retry_attempts of the modelled queue
MaxHistory == 2         \* gas samples recorded
MaxSources == 5         \* price sources answering for one token
MaxSignCalls == 2       \* sign_transaction calls made on one request
MaxGasTime == 1         \* the gas optimizer's clock runs from 0 to MaxGasTime hours
MaxFetchAttempts == 3   \* PriceFeedConfig.max_retry_attempts ranges over 0..MaxFetchAttempts
MaxUpdates == 3         \* update_token_price calls made by start_monitoring
MaxAlertsKept == 3      \* alerts kept in the alert log (100 in the source)
MaxQuotesKept == 3      \* quotes kept per token in the price history (1000 in the source)
MaxReconnects == 2      \* DexMonitorConfig.max_reconnect_attempts ranges over 0..MaxReconnects
MaxSubscriptions == 1   \* subscriptions the subgraph accepts
MaxScans == 2           \* passes of the opportunity processing loop

StartTime == 1999       \* wall clock (seconds) at construction

OrderIds == {1, 2}      \* the orders that are ever created
Priorities == {1, 2}    \* OrderPriority: Low = 1, Normal = 2 (of Low .. Emergency = 5)
Profits == {0, 1050}    \* expected_profit in hundredths: 0.0 and 10.5
Timeouts == {1}         \* OrderContext.timeout_seconds

VARIABLES
    \* ---- order execution queue ----
    orders,              \* id -> Order (fields of struct Order, plus bookkeeping of the calls on it)
    submit_pc,           \* id -> position of the submit_order call for that order
    priority_queue,      \* OrderQueue.priority_queue: ids held in the BinaryHeap
    active_orders,       \* OrderQueue.active_orders: ids
    completed_orders,    \* OrderQueue.completed_orders: ids
    execution_semaphore, \* permits available in OrderQueue.execution_semaphore
    metrics,             \* OrderQueue.metrics
    now,                 \* wall clock, seconds
    events,              \* OrderEvents buffered in the unbounded channel of event_sender
    event_receiver,      \* OrderQueue.event_receiver: "held" by the queue or "taken"
    received,            \* the events the taker of the receiver has received
    \* ---- transaction signing workflow ----
    pending_transactions,   \* TransactionSigningWorkflow.pending_transactions: id -> request
    completed_transactions, \* TransactionSigningWorkflow.completed_transactions: id -> request
    tx_metrics,             \* TransactionSigningWorkflow.metrics
    calls,                  \* id -> position and locals of the lifecycle calls made on it
    \* ---- gas optimizer ----
    gas_history,         \* GasOptimizer.gas_history: sequence of GasDataPoint
    current_stats,       \* GasOptimizer.current_stats: GasStatistics or NoStats
    strategy_cache,      \* GasOptimizer.strategy_cache: strategy -> GasRecommendation or NoRec
    gas_calls,           \* position and locals of the get_recommendation call
    update_calls,        \* caller -> position and locals of its update_gas_data call
    gas_now,             \* wall clock of the gas optimizer, hours
    history_retention_hours, \* GasOptimizerConfig.history_retention_hours
    \* ---- calculate_recommendation as a function of the statistics ----
    rec_stats,           \* the statistics it is applied to
    rec_out,             \* strategy -> the recommendation computed for it
    \* ---- price aggregation ----
    price_in,            \* the source prices handed to aggregate_prices
    price_out,           \* the AggregatedPrice fields computed from them
    \* ---- order priority of an opportunity ----
    prio_in,             \* the opportunity handed to calculate_order_priority
    prio_out,            \* the priority it is given
    \* ---- readiness of a delayed order ----
    ready_in,            \* creation instant, delay and elapsed time, milliseconds
    ready_out,           \* what should_execute_now reports
    \* ---- price feed monitor ----
    price_cache,         \* PriceFeedMonitor.price_cache: token -> AggregatedPrice or NoCached
    price_history,       \* PriceFeedMonitor.price_history: token -> sequence of PriceData
    alerts,              \* PriceFeedMonitor.alerts: sequence of PriceAlert
    feed_metrics,        \* PriceFeedMonitor.metrics
    shutdown_signal,     \* PriceFeedMonitor.shutdown_signal
    monitor,             \* position and locals of the start_monitoring task
    \* ---- fetch_price_from_source ----
    fetch,               \* position and locals of one fetch_price_from_source call
    \* ---- detect_outliers as a function of the prices and the threshold ----
    outlier_in,          \* the source prices and the configured outlier_threshold
    outlier_out,         \* what detect_outliers reports
    \* ---- suggest_strategy and is_favorable_for_trading ----
    queries,             \* call -> position and locals of that call on the gas optimizer
    \* ---- order execution queue: its locks and the calls made on it ----
    rwlocks,             \* lock -> the task writing, the tasks reading and the tasks waiting, in order
    lock_calls,          \* task -> position and result of the call it makes on the queue
    queue_shutdown,      \* OrderQueue.shutdown_signal
    \* ---- start_monitoring of the price feed, by its argument ----
    start_tokens,        \* the target_tokens start_monitoring is called with
    \* ---- DEX monitor and the two tasks of Bot::run that use it ----
    dex,                 \* DexMonitor, and the position of its start_monitoring call
    dex_locks,           \* the RwLock around the DexMonitor
    processing           \* position of the opportunity processing task

queueVars == <<orders, submit_pc, priority_queue, active_orders, completed_orders,
               execution_semaphore, metrics, now>>

eventVars == <<events, event_receiver, received>>

txVars == <<pending_transactions, completed_transactions, tx_metrics, calls>>

gasVars == <<gas_history, current_stats, strategy_cache, gas_calls, update_calls,
             gas_now, history_retention_hours>>

recVars == <<rec_stats, rec_out>>

priceVars == <<price_in, price_out>>

prioVars == <<prio_in, prio_out>>

readyVars == <<ready_in, ready_out>>

feedVars == <<price_cache, price_history, alerts, feed_metrics, shutdown_signal, monitor>>

fetchVars == <<fetch>>

outlierVars == <<outlier_in, outlier_out>>

queryVars == <<queries>>

lockVars == <<rwlocks, lock_calls, queue_shutdown>>

loopVars == <<start_tokens>>

dexVars == <<dex, dex_locks, processing>>

vars == <<queueVars, eventVars, txVars, gasVars, recVars, priceVars, prioVars, readyVars,
          feedVars, fetchVars,
          outlierVars,
          queryVars,
          lockVars,
          loopVars,
          dexVars>>

\* What a step of one subsystem leaves alone.
noEvent == UNCHANGED eventVars
queueOnly ==
    UNCHANGED <<txVars, gasVars, recVars, priceVars, prioVars, readyVars,
                feedVars, fetchVars,
                outlierVars,
                queryVars,
                lockVars,
                loopVars,
                dexVars>>
txOnly ==
    UNCHANGED <<queueVars, eventVars, gasVars, recVars, priceVars, prioVars, readyVars,
                feedVars, fetchVars,
                outlierVars,
                queryVars,
                lockVars,
                loopVars,
                dexVars>>
gasOnly ==
    UNCHANGED <<queueVars, eventVars, txVars, recVars, priceVars, prioVars, readyVars,
                feedVars, fetchVars,
                outlierVars,
                queryVars,
                lockVars,
                loopVars,
                dexVars>>
recOnly ==
    UNCHANGED <<queueVars, eventVars, txVars, gasVars, priceVars, prioVars, readyVars,
                feedVars, fetchVars,
                outlierVars,
                queryVars,
                lockVars,
                loopVars,
                dexVars>>
priceOnly ==
    UNCHANGED <<queueVars, eventVars, txVars, gasVars, recVars, prioVars, readyVars,
                feedVars, fetchVars,
                outlierVars,
                queryVars,
                lockVars,
                loopVars,
                dexVars>>
prioOnly ==
    UNCHANGED <<queueVars, eventVars, txVars, gasVars, recVars, priceVars, readyVars,
                feedVars, fetchVars,
                outlierVars,
                queryVars,
                lockVars,
                loopVars,
                dexVars>>
feedOnly ==
    UNCHANGED <<queueVars, eventVars, txVars, gasVars, recVars, priceVars, prioVars,
                readyVars, fetchVars,
                outlierVars,
                queryVars,
                lockVars,
                loopVars,
                dexVars>>
fetchOnly ==
    UNCHANGED <<queueVars, eventVars, txVars, gasVars, recVars, priceVars, prioVars,
                readyVars, feedVars,
                outlierVars,
                queryVars,
                lockVars,
                loopVars,
                dexVars>>
outlierOnly ==
    UNCHANGED <<queueVars, eventVars, txVars, gasVars, recVars, priceVars, prioVars,
                readyVars, feedVars, fetchVars,
                queryVars,
                lockVars,
                loopVars,
                dexVars>>
gasQueryOnly ==
    UNCHANGED <<queueVars, eventVars, txVars, recVars, priceVars, prioVars,
                readyVars, feedVars, fetchVars, outlierVars,
                lockVars,
                loopVars,
                dexVars>>
lockOnly ==
    UNCHANGED <<txVars, gasVars, recVars, priceVars, prioVars,
                readyVars, feedVars, fetchVars, outlierVars, queryVars,
                loopVars,
                dexVars>>
loopOnly ==
    UNCHANGED <<queueVars, eventVars, txVars, gasVars, recVars, priceVars, prioVars,
                readyVars, fetchVars, outlierVars, queryVars, lockVars, loopVars,
                dexVars>>
dexOnly ==
    UNCHANGED <<queueVars, eventVars, txVars, gasVars, recVars, priceVars, prioVars,
                readyVars, feedVars, fetchVars, outlierVars, queryVars, lockVars,
                loopVars>>
readyOnly ==
    UNCHANGED <<queueVars, eventVars, txVars, gasVars, recVars, priceVars, prioVars,
                feedVars, fetchVars,
                outlierVars,
                queryVars,
                lockVars,
                loopVars,
                dexVars>>

(***************************************************************************)
(* Order execution queue: code                                             *)
(***************************************************************************)
TerminalStatus == {"Completed", "Failed", "Cancelled", "Timeout"}

\* An order id that Order::new has not produced yet.
NoOrder ==
    [priority |-> 0, expected_profit |-> 0, timeout_seconds |-> 0, created_at |-> 0,
     status |-> "None", attempts |-> 0, last_error |-> "None",
     submitted_at |-> 0, inflight |-> FALSE, finished_late |-> FALSE,
     strategy |-> "Immediate", strategy_arg |-> 0, admitted |-> FALSE]

OrderNew_mut(p, profit, tmo, t) ==
    [priority |-> p, expected_profit |-> profit, timeout_seconds |-> tmo, created_at |-> t,
     status |-> "Queued", attempts |-> 0, last_error |-> "None",
     submitted_at |-> t, inflight |-> FALSE, finished_late |-> FALSE,
     strategy |-> "Immediate", strategy_arg |-> 0, admitted |-> FALSE]

\* Order::new: status Pending, attempts 0, no error, created_at = now.  The orders
\* of the queue are created with ExecutionStrategy::Immediate.
OrderNew(p, profit, tmo, t) ==
    [priority |-> p, expected_profit |-> profit, timeout_seconds |-> tmo, created_at |-> t,
     status |-> "Pending", attempts |-> 0, last_error |-> "None",
     submitted_at |-> t, inflight |-> FALSE, finished_late |-> FALSE,
     strategy |-> "Immediate", strategy_arg |-> 0, admitted |-> FALSE]

\* (expected_profit * 100_000.0) as u64: the cast saturates negative values to 0.
ProfitWeight(profit) == IF profit < 0 THEN 0 ELSE profit * 1000

execution_score(o) ==
    o.priority * 1000000 + (o.created_at \div 1000) + ProfitWeight(o.expected_profit)

\* impl Ord for Order: compares the execution scores.
OrderCmp(a, b) ==
    IF execution_score(a) < execution_score(b) THEN "Less"
    ELSE IF execution_score(a) > execution_score(b) THEN "Greater"
    ELSE "Equal"

\* Duration::as_secs and SystemTime ... as_secs: whole seconds of a time in ms.
AsSecs(ms) == ms \div 1000

\* should_execute_now at wall-clock second now_secs.  strategy_arg is the delay
\* in milliseconds for Delayed and the target second for Scheduled.
should_execute_now(o, now_secs) ==
    IF o.strategy = "Delayed" THEN now_secs - o.created_at >= AsSecs(o.strategy_arg)
    ELSE IF o.strategy = "Scheduled" THEN now_secs >= o.strategy_arg
    ELSE TRUE

SemaphoreNew_mut == max_concurrent_executions + 1

\* OrderQueue::new: Semaphore::new(config.max_concurrent_executions)
SemaphoreNew == max_concurrent_executions

QueueInit ==
    /\ orders = [i \in OrderIds |-> NoOrder]
    /\ submit_pc = [i \in OrderIds |-> "idle"]
    /\ priority_queue = {}
    /\ active_orders = {}
    /\ completed_orders = {}
    /\ execution_semaphore = SemaphoreNew
    /\ metrics = [total_orders |-> 0, completed_orders |-> 0, failed_orders |-> 0,
                  cancelled_orders |-> 0, queue_size |-> 0]
    /\ now = StartTime
    /\ events = <<>>
    /\ event_receiver = "held"
    /\ received = <<>>

\* submit_order, first block: the order built by Order::new is pushed on the heap.
SubmitPush(i) ==
    /\ submit_pc[i] = "idle"
    /\ \A j \in OrderIds : j < i => submit_pc[j] # "idle"
    /\ \E p \in Priorities, profit \in Profits, tmo \in Timeouts :
          orders' = [orders EXCEPT ![i] = OrderNew(p, profit, tmo, now)]
    /\ priority_queue' = priority_queue \cup {i}
    /\ submit_pc' = [submit_pc EXCEPT ![i] = "pushed"]
    /\ UNCHANGED <<active_orders, completed_orders, execution_semaphore, metrics, now>>

SubmitMetrics_mut(i) ==
    /\ submit_pc[i] = "pushed"
    /\ metrics' = [metrics EXCEPT !.total_orders = @ + 1,
                                  !.queue_size = Cardinality(priority_queue) - 1]
    /\ submit_pc' = [submit_pc EXCEPT ![i] = "emit"]
    /\ UNCHANGED <<orders, priority_queue, active_orders, completed_orders,
                   execution_semaphore, now>>

\* submit_order, second block: total_orders += 1, queue_size = heap length.
SubmitMetrics(i) ==
    /\ submit_pc[i] = "pushed"
    /\ metrics' = [metrics EXCEPT !.total_orders = @ + 1,
                                  !.queue_size = Cardinality(priority_queue)]
    /\ submit_pc' = [submit_pc EXCEPT ![i] = "emit"]
    /\ UNCHANGED <<orders, priority_queue, active_orders, completed_orders,
                   execution_semaphore, now>>

SubmitEmit_mut(i) ==
    /\ submit_pc[i] = "emit"
    /\ events' = IF event_receiver = "taken"
                 THEN Append(events, [order_id |-> i, before_take |-> FALSE])
                 ELSE events
    /\ submit_pc' = [submit_pc EXCEPT ![i] = "done"]
    /\ UNCHANGED <<orders, priority_queue, active_orders, completed_orders,
                   execution_semaphore, metrics, now, event_receiver, received>>

\* submit_order, end: OrderEvent::OrderQueued(order_id) is sent on the unbounded
\* channel and Ok(order_id) is returned.  The receiving half exists whether the
\* queue still holds it or a caller has taken it, so the send succeeds.
\* (before_take: bookkeeping, was the receiver still held by the queue?)
SubmitEmit(i) ==
    /\ submit_pc[i] = "emit"
    /\ events' = Append(events, [order_id |-> i, before_take |-> (event_receiver = "held")])
    /\ submit_pc' = [submit_pc EXCEPT ![i] = "done"]
    /\ UNCHANGED <<orders, priority_queue, active_orders, completed_orders,
                   execution_semaphore, metrics, now, event_receiver, received>>

\* take_event_receiver: the Option is taken; Some the first time.
TakeEventReceiver ==
    /\ event_receiver = "held"
    /\ event_receiver' = "taken"
    /\ UNCHANGED <<queueVars, events, received>>

\* recv() on the taken receiver: the oldest buffered event is delivered.
Recv ==
    /\ event_receiver = "taken"
    /\ events # <<>>
    /\ received' = Append(received, Head(events))
    /\ events' = Tail(events)
    /\ UNCHANGED <<queueVars, event_receiver>>

\* get_order_status: active orders, then completed orders, then the heap.
get_order_status(i) ==
    IF i \in active_orders \/ i \in completed_orders \/ i \in priority_queue
    THEN orders[i].status ELSE "None"

(***************************************************************************)
(* Order execution queue: the execution engine (OrderQueue::start and      *)
(* cancel_order).  Its callers and tests are in the repository, its body   *)
(* is not; it is modelled from spec.md sections 4.1, 5 and 9 and from      *)
(* test_order_cancellation.                                                *)
(***************************************************************************)
Deadline(o) == o.submitted_at + o.timeout_seconds

Ready == {i \in priority_queue : should_execute_now(orders[i], now)}

\* BinaryHeap::pop restricted to the ready orders: an order no ready order is Greater than.
Top == {i \in Ready : \A j \in Ready : OrderCmp(orders[j], orders[i]) # "Greater"}

\* A terminal status is recorded, the order is archived and its permit returned.
Finish(i, st, err) ==
    /\ orders' = [orders EXCEPT ![i].status = st, ![i].last_error = err,
                                ![i].finished_late = (now >= Deadline(orders[i]))]
    /\ active_orders' = active_orders \ {i}
    /\ completed_orders' = completed_orders \cup {i}
    /\ execution_semaphore' = execution_semaphore + 1

\* Admission: with a free permit the highest-scored ready order leaves the heap.
Admit(i) ==
    /\ execution_semaphore > 0
    /\ i \in Top
    /\ priority_queue' = priority_queue \ {i}
    /\ active_orders' = active_orders \cup {i}
    /\ execution_semaphore' = execution_semaphore - 1
    /\ orders' = [orders EXCEPT ![i].status = "Queued", ![i].admitted = TRUE]
    /\ metrics' = [metrics EXCEPT !.queue_size = Cardinality(priority_queue')]
    /\ UNCHANGED <<submit_pc, completed_orders, now>>

\* The admitted order's execution task starts.
Begin(i) ==
    /\ i \in active_orders
    /\ orders[i].status = "Queued"
    /\ orders' = [orders EXCEPT ![i].status = "Executing"]
    /\ UNCHANGED <<submit_pc, priority_queue, active_orders, completed_orders,
                   execution_semaphore, metrics, now>>

\* May the engine issue another lifecycle attempt for this order?
MayAttempt(o) == o.attempts < max_retry_attempts

\* One lifecycle attempt is issued (a network call is now in flight).
AttemptStart(i) ==
    /\ i \in active_orders
    /\ orders[i].status = "Executing"
    /\ ~orders[i].inflight
    /\ MayAttempt(orders[i])
    /\ now < Deadline(orders[i])
    /\ orders' = [orders EXCEPT ![i].attempts = @ + 1, ![i].inflight = TRUE]
    /\ UNCHANGED <<submit_pc, priority_queue, active_orders, completed_orders,
                   execution_semaphore, metrics, now>>

ResultCounts_mut(o) == o.status = "Executing"

\* Is the result of a returning call still recorded?  Not after a cancel or a
\* timeout, and not once the deadline has passed (the timeout wins).
ResultCounts(o) == o.status = "Executing" /\ now < Deadline(o)

RetriesExhausted_mut(o) == o.attempts > max_retry_attempts

\* Has the order used up max_retry_attempts?
RetriesExhausted(o) == o.attempts >= max_retry_attempts

\* The in-flight call returns.
AttemptEnd(i, ok) ==
    /\ orders[i].inflight
    /\ IF ~ResultCounts(orders[i])
       THEN /\ orders' = [orders EXCEPT ![i].inflight = FALSE]
            /\ UNCHANGED <<active_orders, completed_orders, execution_semaphore, metrics>>
       ELSE IF ok
       THEN /\ Finish(i, "Completed", orders[i].last_error)
            /\ metrics' = [metrics EXCEPT !.completed_orders = @ + 1]
       ELSE IF RetriesExhausted(orders[i])
       THEN /\ Finish(i, "Failed", "error")
            /\ metrics' = [metrics EXCEPT !.failed_orders = @ + 1]
       ELSE /\ orders' = [orders EXCEPT ![i].inflight = FALSE, ![i].last_error = "error"]
            /\ UNCHANGED <<active_orders, completed_orders, execution_semaphore, metrics>>
    /\ UNCHANGED <<submit_pc, priority_queue, now>>

\* Has the order's wall-clock deadline, measured from submission, elapsed?
Expired(o) == now >= Deadline(o)

\* The per-order timeout fires for an executing order.
TimeoutFire(i) ==
    /\ i \in active_orders
    /\ orders[i].status = "Executing"
    /\ Expired(orders[i])
    /\ Finish(i, "Timeout", orders[i].last_error)
    /\ UNCHANGED <<submit_pc, priority_queue, metrics, now>>

\* Which orders can cancel_order still cancel?
Cancellable(i) == i \in priority_queue \/ i \in active_orders

CancelOrder_mut(i) ==
    /\ Cancellable(i)
    /\ orders' = [orders EXCEPT ![i].status = "Cancelled", ![i].finished_late = (now >= Deadline(orders[i]))]
    /\ priority_queue' = priority_queue \ {i}
    /\ active_orders' = active_orders \ {i}
    /\ completed_orders' = completed_orders
    /\ execution_semaphore' = IF i \in active_orders THEN execution_semaphore + 1
                              ELSE execution_semaphore
    /\ metrics' = [metrics EXCEPT !.cancelled_orders = @ + 1,
                                  !.queue_size = Cardinality(priority_queue')]
    /\ UNCHANGED <<submit_pc, now>>

\* cancel_order(id) returning true: a waiting order leaves the heap, an admitted
\* one gives its permit back; either is archived as Cancelled.
CancelOrder(i) ==
    /\ Cancellable(i)
    /\ orders' = [orders EXCEPT ![i].status = "Cancelled", ![i].finished_late = (now >= Deadline(orders[i]))]
    /\ priority_queue' = priority_queue \ {i}
    /\ active_orders' = active_orders \ {i}
    /\ completed_orders' = completed_orders \cup {i}
    /\ execution_semaphore' = IF i \in active_orders THEN execution_semaphore + 1
                              ELSE execution_semaphore
    /\ metrics' = [metrics EXCEPT !.cancelled_orders = @ + 1,
                                  !.queue_size = Cardinality(priority_queue')]
    /\ UNCHANGED <<submit_pc, now>>

\* The wall clock advances by one second.
Tick ==
    /\ now < StartTime + MaxTime
    /\ now' = now + 1
    /\ UNCHANGED <<orders, submit_pc, priority_queue, active_orders, completed_orders,
                   execution_semaphore, metrics>>

QueueNext ==
    \/ \E i \in OrderIds : SubmitPush(i) /\ noEvent /\ queueOnly
    \/ \E i \in OrderIds : SubmitMetrics(i) /\ noEvent /\ queueOnly
    \/ \E i \in OrderIds : SubmitEmit(i) /\ queueOnly
    \/ \E i \in OrderIds : Admit(i) /\ noEvent /\ queueOnly
    \/ \E i \in OrderIds : Begin(i) /\ noEvent /\ queueOnly
    \/ \E i \in OrderIds : AttemptStart(i) /\ noEvent /\ queueOnly
    \/ \E i \in OrderIds, ok \in BOOLEAN : AttemptEnd(i, ok) /\ noEvent /\ queueOnly
    \/ \E i \in OrderIds : TimeoutFire(i) /\ noEvent /\ queueOnly
    \/ \E i \in OrderIds : CancelOrder(i) /\ noEvent /\ queueOnly
    \/ Tick /\ noEvent /\ queueOnly

\* Submitters and the taker of the event receiver, with the engine not started.
EventNext ==
    \/ \E i \in OrderIds : SubmitPush(i) /\ noEvent /\ queueOnly
    \/ \E i \in OrderIds : SubmitMetrics(i) /\ noEvent /\ queueOnly
    \/ \E i \in OrderIds : SubmitEmit(i) /\ queueOnly
    \/ TakeEventReceiver /\ queueOnly
    \/ Recv /\ queueOnly

(***************************************************************************)
(* Order execution queue: the locks its operations take.  A step of a call *)
(* is what it does between two awaits of a lock; tokio's RwLock grants in  *)
(* the order of the requests.                                              *)
(***************************************************************************)
LockNames == {"priority_queue", "active_orders", "completed_orders", "metrics",
              "event_receiver", "shutdown_signal"}

SubmitTasks == {"submit_order_1", "submit_order_2"}
LockTasks == SubmitTasks \cup {"get_order_status", "get_metrics", "take_event_receiver",
                               "shutdown"}

\* The order a submit_order call is made for; get_order_status asks for order 1.
OrderOf(t) == IF t = "submit_order_2" THEN 2 ELSE 1

FreeLock == [writer |-> "none", readers |-> {}, waiting |-> <<>>]

LockInit ==
    /\ rwlocks = [l \in LockNames |-> FreeLock]
    /\ lock_calls = [t \in LockTasks |-> [pc |-> "idle", result |-> "None"]]
    /\ queue_shutdown = FALSE

Holds(l, t) == rwlocks[l].writer = t \/ t \in rwlocks[l].readers

\* A request can be granted: no writer, and for a writer no reader either.
Compatible(lock, mode) ==
    lock.writer = "none" /\ (mode = "write" => lock.readers = {})

Granted(lock, t, mode) ==
    IF mode = "write" THEN [lock EXCEPT !.writer = t]
    ELSE [lock EXCEPT !.readers = @ \cup {t}]

\* read().await / write().await: granted at once when nothing stands in the
\* way and nobody waits, queued behind the waiting tasks otherwise.
Acquire(locks, l, t, mode) ==
    [locks EXCEPT ![l] = IF Compatible(@, mode) /\ @.waiting = <<>>
                         THEN Granted(@, t, mode)
                         ELSE [@ EXCEPT !.waiting = Append(@, [task |-> t, mode |-> mode])]]

Release_mut(locks, l, t) ==
    locks

\* The guard is dropped.
Release(locks, l, t) ==
    [locks EXCEPT ![l].writer = IF @ = t THEN "none" ELSE @,
                  ![l].readers = @ \ {t}]

\* The request at the head of a lock's queue is granted.
Enter(t) ==
    /\ \E l \in LockNames :
          /\ rwlocks[l].waiting # <<>>
          /\ Head(rwlocks[l].waiting).task = t
          /\ Compatible(rwlocks[l], Head(rwlocks[l].waiting).mode)
          /\ rwlocks' = [rwlocks EXCEPT
                           ![l] = Granted([@ EXCEPT !.waiting = Tail(@)], t,
                                          Head(rwlocks[l].waiting).mode)]
    /\ UNCHANGED <<lock_calls, queue_shutdown, queueVars, eventVars>>

At(t, pc) == lock_calls[t].pc = pc

Goto(t, pc) == lock_calls' = [lock_calls EXCEPT ![t].pc = pc]

Return(t, result) == lock_calls' = [lock_calls EXCEPT ![t] = [pc |-> "done", result |-> result]]

\* submit_order: priority_queue.write().await
LockedSubmitStart(t) ==
    /\ At(t, "idle")
    /\ \A u \in SubmitTasks : OrderOf(u) < OrderOf(t) => ~At(u, "idle")
    /\ rwlocks' = Acquire(rwlocks, "priority_queue", t, "write")
    /\ Goto(t, "push")
    /\ UNCHANGED <<queue_shutdown, queueVars, eventVars>>

SubmitEndBlock_mut(locks, t) ==
    locks

\* submit_order: the write guard of the heap is dropped at the end of its block.
SubmitEndBlock(locks, t) ==
    Release(locks, "priority_queue", t)

\* submit_order: the push under the write lock, the end of the block, and
\* metrics.write().await
LockedSubmitPush(t) ==
    /\ At(t, "push")
    /\ Holds("priority_queue", t)
    /\ SubmitPush(OrderOf(t))
    /\ rwlocks' = Acquire(SubmitEndBlock(rwlocks, t), "metrics", t, "write")
    /\ Goto(t, "count")
    /\ UNCHANGED <<queue_shutdown, eventVars>>

\* submit_order: total_orders += 1 under the metrics lock, then the read lock
\* of the heap is awaited while the metrics lock is held.
LockedSubmitCount(t) ==
    /\ At(t, "count")
    /\ Holds("metrics", t)
    /\ rwlocks' = Acquire(rwlocks, "priority_queue", t, "read")
    /\ Goto(t, "len")
    /\ UNCHANGED <<queue_shutdown, queueVars, eventVars>>

\* submit_order: queue_size is assigned; both guards are dropped.
LockedSubmitMetrics(t) ==
    /\ At(t, "len")
    /\ Holds("priority_queue", t)
    /\ SubmitMetrics(OrderOf(t))
    /\ rwlocks' = Release(Release(rwlocks, "priority_queue", t), "metrics", t)
    /\ Goto(t, "emit")
    /\ UNCHANGED <<queue_shutdown, eventVars>>

\* submit_order: the event is sent and Ok(order_id) returned.
LockedSubmitEmit(t) ==
    /\ At(t, "emit")
    /\ SubmitEmit(OrderOf(t))
    /\ Return(t, "Ok")
    /\ UNCHANGED <<rwlocks, queue_shutdown>>

\* get_metrics: metrics.read().await
LockedMetricsStart(t) ==
    /\ t = "get_metrics"
    /\ At(t, "idle")
    /\ rwlocks' = Acquire(rwlocks, "metrics", t, "read")
    /\ Goto(t, "read")
    /\ UNCHANGED <<queue_shutdown, queueVars, eventVars>>

\* get_metrics: the clone is returned (result: its total_orders).
LockedMetricsRead(t) ==
    /\ t = "get_metrics"
    /\ At(t, "read")
    /\ Holds("metrics", t)
    /\ rwlocks' = Release(rwlocks, "metrics", t)
    /\ Return(t, IF metrics.total_orders = 0 THEN "0 orders" ELSE "orders")
    /\ UNCHANGED <<queue_shutdown, queueVars, eventVars>>

\* get_order_status: active_orders.read().await
LockedStatusStart(t) ==
    /\ t = "get_order_status"
    /\ At(t, "idle")
    /\ rwlocks' = Acquire(rwlocks, "active_orders", t, "read")
    /\ Goto(t, "active_orders")
    /\ UNCHANGED <<queue_shutdown, queueVars, eventVars>>

\* get_order_status: one map is searched under its read lock; the guard is
\* dropped at the end of the statement, before the next lock is awaited.
LockedStatusLook(t, l, held, next) ==
    /\ t = "get_order_status"
    /\ At(t, l)
    /\ Holds(l, t)
    /\ IF OrderOf(t) \in held
       THEN /\ rwlocks' = Release(rwlocks, l, t)
            /\ Return(t, orders[OrderOf(t)].status)
       ELSE IF next = "None"
       THEN /\ rwlocks' = Release(rwlocks, l, t)
            /\ Return(t, "None")
       ELSE /\ rwlocks' = Acquire(Release(rwlocks, l, t), next, t, "read")
            /\ Goto(t, next)
    /\ UNCHANGED <<queue_shutdown, queueVars, eventVars>>

\* take_event_receiver: event_receiver.write().await
LockedTakeStart(t) ==
    /\ t = "take_event_receiver"
    /\ At(t, "idle")
    /\ rwlocks' = Acquire(rwlocks, "event_receiver", t, "write")
    /\ Goto(t, "take")
    /\ UNCHANGED <<queue_shutdown, queueVars, eventVars>>

\* take_event_receiver: .take()
LockedTake(t) ==
    /\ t = "take_event_receiver"
    /\ At(t, "take")
    /\ Holds("event_receiver", t)
    /\ TakeEventReceiver
    /\ rwlocks' = Release(rwlocks, "event_receiver", t)
    /\ Return(t, "Some")
    /\ UNCHANGED queue_shutdown

\* shutdown: shutdown_signal.write().await
LockedShutdownStart(t) ==
    /\ t = "shutdown"
    /\ At(t, "idle")
    /\ rwlocks' = Acquire(rwlocks, "shutdown_signal", t, "write")
    /\ Goto(t, "set")
    /\ UNCHANGED <<queue_shutdown, queueVars, eventVars>>

\* shutdown: the signal is set.
LockedShutdownSet(t) ==
    /\ t = "shutdown"
    /\ At(t, "set")
    /\ Holds("shutdown_signal", t)
    /\ queue_shutdown' = TRUE
    /\ rwlocks' = Release(rwlocks, "shutdown_signal", t)
    /\ Return(t, "Ok")
    /\ UNCHANGED <<queueVars, eventVars>>

\* One call of each operation, two of submit_order, made concurrently.
LockNext ==
    \/ \E t \in LockTasks : Enter(t) /\ lockOnly
    \/ \E t \in SubmitTasks : LockedSubmitStart(t) /\ lockOnly
    \/ \E t \in SubmitTasks : LockedSubmitPush(t) /\ lockOnly
    \/ \E t \in SubmitTasks : LockedSubmitCount(t) /\ lockOnly
    \/ \E t \in SubmitTasks : LockedSubmitMetrics(t) /\ lockOnly
    \/ \E t \in SubmitTasks : LockedSubmitEmit(t) /\ lockOnly
    \/ LockedMetricsStart("get_metrics") /\ lockOnly
    \/ LockedMetricsRead("get_metrics") /\ lockOnly
    \/ LockedStatusStart("get_order_status") /\ lockOnly
    \/ LockedStatusLook("get_order_status", "active_orders", active_orders,
                        "completed_orders") /\ lockOnly
    \/ LockedStatusLook("get_order_status", "completed_orders", completed_orders,
                        "priority_queue") /\ lockOnly
    \/ LockedStatusLook("get_order_status", "priority_queue", priority_queue, "None")
           /\ lockOnly
    \/ LockedTakeStart("take_event_receiver") /\ lockOnly
    \/ LockedTake("take_event_receiver") /\ lockOnly
    \/ LockedShutdownStart("shutdown") /\ lockOnly
    \/ LockedShutdownSet("shutdown") /\ lockOnly

(***************************************************************************)
(* DEX monitor: start_monitoring run by the monitoring task of Bot::run    *)
(* under the write lock of the monitor, and the opportunity processing     *)
(* task that reads the monitor.                                            *)
(***************************************************************************)
reconnect_timeout == 5      \* DexMonitorConfig::default, seconds

ConnectOutcomes == {"failed", "subscribed"}
StreamOutcomes == {"error", "closed"}

DexInit(limits) ==
    /\ dex \in [pc : {"lock"}, reconnect_attempts : {0},
                max_reconnect_attempts : limits,
                result : {"None"}, delay : {0},
                attempts : {0},          \* bookkeeping: connection attempts made
                subscriptions : {0}]     \* bookkeeping: subscriptions started
    /\ dex_locks = [l \in {"dex_monitor"} |-> FreeLock]
    /\ processing = [pc |-> "tick", scans |-> 0]

DexHolds(t) == dex_locks["dex_monitor"].writer = t \/ t \in dex_locks["dex_monitor"].readers

\* calculate_backoff_delay, seconds
calculate_backoff_delay(reconnect_attempts) ==
    LET multiplier == 2 ^ (IF reconnect_attempts < 6 THEN reconnect_attempts ELSE 6)
        delay == reconnect_timeout * multiplier
    IN  IF delay < 300 THEN delay ELSE 300

DexExhausted_mut(reconnect_attempts, max_reconnect_attempts) ==
    reconnect_attempts > max_reconnect_attempts

\* start_monitoring: no reconnection is left.
DexExhausted(reconnect_attempts, max_reconnect_attempts) ==
    reconnect_attempts >= max_reconnect_attempts

\* A pending read().await / write().await on the monitor is granted.
DexGrant(t) ==
    /\ dex_locks["dex_monitor"].waiting # <<>>
    /\ Head(dex_locks["dex_monitor"].waiting).task = t
    /\ Compatible(dex_locks["dex_monitor"], Head(dex_locks["dex_monitor"].waiting).mode)
    /\ dex_locks' = [dex_locks EXCEPT
                       !["dex_monitor"] = Granted([@ EXCEPT !.waiting = Tail(@)], t,
                                                  Head(dex_locks["dex_monitor"].waiting).mode)]
    /\ UNCHANGED <<dex, processing>>

\* Bot::run, monitoring task: dex_monitor.write().await
DexLock ==
    /\ dex.pc = "lock"
    /\ dex_locks' = Acquire(dex_locks, "dex_monitor", "monitoring_task", "write")
    /\ dex' = [dex EXCEPT !.pc = "connect"]
    /\ UNCHANGED processing

\* connect_and_monitor up to the start of the subscription: an error on the
\* way is returned; with the subscription started reconnect_attempts is reset.
DexConnect(outcome) ==
    /\ dex.pc = "connect"
    /\ DexHolds("monitoring_task")
    /\ outcome = "subscribed" => dex.subscriptions < MaxSubscriptions
    /\ dex' = IF outcome = "subscribed"
              THEN [dex EXCEPT !.pc = "monitoring", !.reconnect_attempts = 0,
                               !.attempts = @ + 1, !.subscriptions = @ + 1]
              ELSE [dex EXCEPT !.pc = "failed", !.attempts = @ + 1]
    /\ UNCHANGED <<dex_locks, processing>>

\* connect_and_monitor, message loop: a stream error is returned as an error;
\* a close or a heartbeat timeout ends it with Ok, start_monitoring returns Ok
\* and the task drops its write guard.
DexStream(outcome) ==
    /\ dex.pc = "monitoring"
    /\ IF outcome = "error"
       THEN /\ dex' = [dex EXCEPT !.pc = "failed"]
            /\ UNCHANGED dex_locks
       ELSE /\ dex' = [dex EXCEPT !.pc = "returned", !.result = "Ok"]
            /\ dex_locks' = Release(dex_locks, "dex_monitor", "monitoring_task")
    /\ UNCHANGED processing

\* start_monitoring, Err arm: a Network error once the reconnections are used
\* up, otherwise reconnect_attempts += 1 and the backoff sleep.
DexFailed ==
    /\ dex.pc = "failed"
    /\ IF DexExhausted(dex.reconnect_attempts, dex.max_reconnect_attempts)
       THEN /\ dex' = [dex EXCEPT !.pc = "returned", !.result = "Network"]
            /\ dex_locks' = Release(dex_locks, "dex_monitor", "monitoring_task")
       ELSE /\ dex' = [dex EXCEPT !.pc = "sleep",
                                  !.reconnect_attempts = @ + 1,
                                  !.delay = calculate_backoff_delay(dex.reconnect_attempts + 1)]
            /\ UNCHANGED dex_locks
    /\ UNCHANGED processing

\* start_monitoring: the sleep is over.
DexWake ==
    /\ dex.pc = "sleep"
    /\ dex' = [dex EXCEPT !.pc = "connect", !.delay = 0]
    /\ UNCHANGED <<dex_locks, processing>>

\* start_opportunity_processing: the interval has ticked; with unfavourable gas
\* the pass is skipped, otherwise dex_monitor.read().await
ProcessingTick(gas_favorable) ==
    /\ processing.pc = "tick"
    /\ processing.scans < MaxScans
    /\ IF gas_favorable
       THEN /\ dex_locks' = Acquire(dex_locks, "dex_monitor", "processing_task", "read")
            /\ processing' = [processing EXCEPT !.pc = "scan"]
       ELSE /\ processing' = [processing EXCEPT !.scans = @ + 1]
            /\ UNCHANGED dex_locks
    /\ UNCHANGED dex

\* start_opportunity_processing: the opportunities are read under the read
\* guard, which is dropped at the end of the pass.
ProcessingScan ==
    /\ processing.pc = "scan"
    /\ DexHolds("processing_task")
    /\ dex_locks' = Release(dex_locks, "dex_monitor", "processing_task")
    /\ processing' = [pc |-> "tick", scans |-> processing.scans + 1]
    /\ UNCHANGED dex

\* The steps the two tasks take by themselves.
DexTaskStep ==
    \/ \E t \in {"monitoring_task", "processing_task"} : DexGrant(t) /\ dexOnly
    \/ DexLock /\ dexOnly
    \/ \E outcome \in ConnectOutcomes : DexConnect(outcome) /\ dexOnly
    \/ DexFailed /\ dexOnly
    \/ DexWake /\ dexOnly
    \/ \E gas_favorable \in BOOLEAN : ProcessingTick(gas_favorable) /\ dexOnly
    \/ ProcessingScan /\ dexOnly

\* The two tasks and what the subscription's stream does.
DexNext ==
    \/ DexTaskStep
    \/ \E outcome \in StreamOutcomes : DexStream(outcome) /\ dexOnly

(***************************************************************************)
(* Transaction signing workflow                                            *)
(* Every lifecycle call is a task of its own; one step of a task is what   *)
(* it does under one acquisition of a lock (or one await of the wallet or  *)
(* of the provider).                                                       *)
(***************************************************************************)
TxIds == {1}

\* Outcomes of provider.get_transaction_receipt: a receipt with status 1, a receipt
\* with status 0, or no receipt.
Receipts == {"status1", "status0", "none"}

\* An id the map does not hold.
NoTx == [status |-> "None", tx_hash |-> FALSE]

IdleCalls ==
    [prepare |-> "idle", sign |-> "idle", submit |-> "idle", wait |-> "idle",
     cancel |-> "idle",
     sign_calls |-> 0,        \* how many sign_transaction calls have been made
     receipt |-> "none",      \* wait_for_confirmation: the receipt it got
     returned |-> NoTx,       \* wait_for_confirmation: the request it returns
     wait_moved |-> NoTx,     \* move_to_completed (from wait): the removed request
     cancel_moved |-> NoTx,   \* move_to_completed (from cancel): the removed request
     in_order |-> TRUE,       \* were the calls made one after the other, in lifecycle order?
     cancel_hit |-> FALSE]    \* did cancel's status update find the request pending?

TxInit ==
    /\ pending_transactions = [i \in TxIds |-> NoTx]
    /\ completed_transactions = [i \in TxIds |-> NoTx]
    /\ tx_metrics = [total_transactions |-> 0, successful_transactions |-> 0,
                     failed_transactions |-> 0,
                     success_rate |-> 0]     \* in hundredths
    /\ calls = [i \in TxIds |-> IdleCalls]

\* update_transaction_status: only a request found in the pending map is changed.
update_transaction_status(pending, i, st) ==
    IF pending[i] # NoTx THEN [pending EXCEPT ![i].status = st] ELSE pending

\* update_transaction_hash
update_transaction_hash(pending, i) ==
    IF pending[i] # NoTx THEN [pending EXCEPT ![i].tx_hash = TRUE] ELSE pending

\* get_transaction_status: the pending map first, then the completed map.
get_transaction_status(i) ==
    IF pending_transactions[i] # NoTx THEN pending_transactions[i].status
    ELSE IF completed_transactions[i] # NoTx THEN completed_transactions[i].status
    ELSE "None"

\* prepare_swap_transaction / prepare_approval_transaction: the request is stored
\* with status Preparing.
Prepare(i) ==
    /\ calls[i].prepare = "idle"
    /\ pending_transactions' = [pending_transactions EXCEPT
                                  ![i] = [status |-> "Preparing", tx_hash |-> FALSE]]
    /\ calls' = [calls EXCEPT ![i].prepare = "ok"]
    /\ UNCHANGED <<completed_transactions, tx_metrics>>

\* sign_transaction: the request is looked up in the pending map.  The call can
\* be made again once the previous sign_transaction call has returned.
SignLookup(i) ==
    /\ calls[i].prepare = "ok"
    /\ calls[i].sign \in {"idle", "ok", "err"}
    /\ calls[i].sign_calls < MaxSignCalls
    /\ calls' = [calls EXCEPT
                   ![i].sign = IF pending_transactions[i] # NoTx THEN "found" ELSE "err",
                   ![i].sign_calls = @ + 1,
                   ![i].in_order = @ /\ calls[i].submit = "idle" /\ calls[i].wait = "idle"]
    /\ UNCHANGED <<pending_transactions, completed_transactions, tx_metrics>>

\* sign_transaction: status := Signing
SignSetSigning(i) ==
    /\ calls[i].sign = "found"
    /\ pending_transactions' = update_transaction_status(pending_transactions, i, "Signing")
    /\ calls' = [calls EXCEPT ![i].sign = "signing"]
    /\ UNCHANGED <<completed_transactions, tx_metrics>>

\* sign_transaction: wallet.sign_transaction(tx_request).await?
SignWallet(i, ok) ==
    /\ calls[i].sign = "signing"
    /\ calls' = [calls EXCEPT ![i].sign = IF ok THEN "signed" ELSE "err"]
    /\ UNCHANGED <<pending_transactions, completed_transactions, tx_metrics>>

\* sign_transaction: status := Submitted, and the signed bytes are returned.
SignSetSubmitted(i) ==
    /\ calls[i].sign = "signed"
    /\ pending_transactions' = update_transaction_status(pending_transactions, i, "Submitted")
    /\ calls' = [calls EXCEPT ![i].sign = "ok"]
    /\ UNCHANGED <<completed_transactions, tx_metrics>>

\* submit_transaction: the payload is decoded and sent with send_raw_transaction.
SubmitSend(i, ok) ==
    /\ calls[i].prepare = "ok"
    /\ calls[i].submit = "idle"
    /\ calls' = [calls EXCEPT ![i].submit = IF ok THEN "sent" ELSE "err",
                              ![i].in_order = @ /\ calls[i].sign = "ok" /\ calls[i].wait = "idle"]
    /\ UNCHANGED <<pending_transactions, completed_transactions, tx_metrics>>

\* submit_transaction: the hash is recorded and returned.
SubmitRecordHash(i) ==
    /\ calls[i].submit = "sent"
    /\ pending_transactions' = update_transaction_hash(pending_transactions, i)
    /\ calls' = [calls EXCEPT ![i].submit = "ok"]
    /\ UNCHANGED <<completed_transactions, tx_metrics>>

\* wait_for_confirmation: provider.get_transaction_receipt(hash).await?
WaitReceipt(i, ok, r) ==
    /\ calls[i].prepare = "ok"
    /\ calls[i].wait = "idle"
    /\ calls' = [calls EXCEPT
                   ![i].wait = IF ~ok THEN "err" ELSE IF r = "none" THEN "status" ELSE "metrics",
                   ![i].receipt = IF ok THEN r ELSE "none",
                   ![i].in_order = @ /\ calls[i].sign = "ok" /\ calls[i].submit = "ok"]
    /\ UNCHANGED <<pending_transactions, completed_transactions, tx_metrics>>

\* update_confirmation_metrics, called for every receipt
update_confirmation_metrics(m) ==
    [m EXCEPT !.total_transactions = @ + 1, !.successful_transactions = @ + 1,
              !.success_rate = (100 * (m.successful_transactions + 1))
                                   \div (m.total_transactions + 1)]

WaitMetrics(i) ==
    /\ calls[i].wait = "metrics"
    /\ tx_metrics' = update_confirmation_metrics(tx_metrics)
    /\ calls' = [calls EXCEPT ![i].wait = "status"]
    /\ UNCHANGED <<pending_transactions, completed_transactions>>

ReceiptStatus_mut(r) ==
    IF r = "none" THEN "Failed(No receipt received)" ELSE "Confirmed"

\* The status wait_for_confirmation records for a receipt.
ReceiptStatus(r) ==
    IF r = "status1" THEN "Confirmed"
    ELSE IF r = "status0" THEN "Failed(Transaction reverted)"
    ELSE "Failed(No receipt received)"

WaitSetStatus(i) ==
    /\ calls[i].wait = "status"
    /\ pending_transactions' =
          update_transaction_status(pending_transactions, i, ReceiptStatus(calls[i].receipt))
    /\ calls' = [calls EXCEPT ![i].wait = "read"]
    /\ UNCHANGED <<completed_transactions, tx_metrics>>

\* wait_for_confirmation: the updated request is read back from the pending map.
WaitRead(i) ==
    /\ calls[i].wait = "read"
    /\ calls' = [calls EXCEPT
                   ![i].wait = IF pending_transactions[i] # NoTx THEN "move" ELSE "err",
                   ![i].returned = pending_transactions[i]]
    /\ UNCHANGED <<pending_transactions, completed_transactions, tx_metrics>>

\* move_to_completed, first lock: the request is removed from the pending map.
WaitMoveRemove(i) ==
    /\ calls[i].wait = "move"
    /\ calls' = [calls EXCEPT ![i].wait = "insert", ![i].wait_moved = pending_transactions[i]]
    /\ pending_transactions' = [pending_transactions EXCEPT ![i] = NoTx]
    /\ UNCHANGED <<completed_transactions, tx_metrics>>

\* move_to_completed, second lock: if one was removed it is inserted in the archive.
WaitMoveInsert(i) ==
    /\ calls[i].wait = "insert"
    /\ completed_transactions' =
          IF calls[i].wait_moved # NoTx
          THEN [completed_transactions EXCEPT ![i] = calls[i].wait_moved]
          ELSE completed_transactions
    /\ calls' = [calls EXCEPT ![i].wait = "ok", ![i].wait_moved = NoTx]
    /\ UNCHANGED <<pending_transactions, tx_metrics>>

\* cancel_transaction: status := Cancelled
CancelSetStatus(i) ==
    /\ calls[i].prepare = "ok"
    /\ calls[i].cancel = "idle"
    /\ pending_transactions' = update_transaction_status(pending_transactions, i, "Cancelled")
    /\ calls' = [calls EXCEPT ![i].cancel = "move", ![i].in_order = FALSE,
                              ![i].cancel_hit = (pending_transactions[i] # NoTx)]
    /\ UNCHANGED <<completed_transactions, tx_metrics>>

CancelMoveRemove(i) ==
    /\ calls[i].cancel = "move"
    /\ calls' = [calls EXCEPT ![i].cancel = "insert",
                              ![i].cancel_moved = pending_transactions[i]]
    /\ pending_transactions' = [pending_transactions EXCEPT ![i] = NoTx]
    /\ UNCHANGED <<completed_transactions, tx_metrics>>

CancelMoveInsert(i) ==
    /\ calls[i].cancel = "insert"
    /\ completed_transactions' =
          IF calls[i].cancel_moved # NoTx
          THEN [completed_transactions EXCEPT ![i] = calls[i].cancel_moved]
          ELSE completed_transactions
    /\ calls' = [calls EXCEPT ![i].cancel = "ok", ![i].cancel_moved = NoTx]
    /\ UNCHANGED <<pending_transactions, tx_metrics>>

TxNext ==
    \/ \E i \in TxIds : Prepare(i) /\ txOnly
    \/ \E i \in TxIds : SignLookup(i) /\ txOnly
    \/ \E i \in TxIds : SignSetSigning(i) /\ txOnly
    \/ \E i \in TxIds, ok \in BOOLEAN : SignWallet(i, ok) /\ txOnly
    \/ \E i \in TxIds : SignSetSubmitted(i) /\ txOnly
    \/ \E i \in TxIds, ok \in BOOLEAN : SubmitSend(i, ok) /\ txOnly
    \/ \E i \in TxIds : SubmitRecordHash(i) /\ txOnly
    \/ \E i \in TxIds, ok \in BOOLEAN, r \in Receipts : WaitReceipt(i, ok, r) /\ txOnly
    \/ \E i \in TxIds : WaitMetrics(i) /\ txOnly
    \/ \E i \in TxIds : WaitSetStatus(i) /\ txOnly
    \/ \E i \in TxIds : WaitRead(i) /\ txOnly
    \/ \E i \in TxIds : WaitMoveRemove(i) /\ txOnly
    \/ \E i \in TxIds : WaitMoveInsert(i) /\ txOnly
    \/ \E i \in TxIds : CancelSetStatus(i) /\ txOnly
    \/ \E i \in TxIds : CancelMoveRemove(i) /\ txOnly
    \/ \E i \in TxIds : CancelMoveInsert(i) /\ txOnly

(***************************************************************************)
(* Gas optimizer                                                           *)
(* Fees are counted in gwei, gas_used_ratio in hundredths.  The f64        *)
(* arithmetic of the source is modelled by exact rational arithmetic, and  *)
(* the casts to u64 by truncation.  Time is counted in hours; under        *)
(* SpecGas all calls fall within one retention and one freshness window.   *)
(***************************************************************************)
max_base_fee_gwei == 200
max_priority_fee_gwei == 50
congestion_threshold == 80   \* 0.80, in hundredths
TrendWindow == 10            \* "last 10 vs previous 10"

Strategies == {"Conservative", "Standard", "Aggressive", "Emergency", "Custom"}

\* The samples update_gas_data is called with.
GasSamples ==
    {[base_fee |-> 30, priority_fee |-> 2, gas_used_ratio |-> 50],
     [base_fee |-> 30, priority_fee |-> 2, gas_used_ratio |-> 80],
     [base_fee |-> 250, priority_fee |-> 60, gas_used_ratio |-> 95],
     [base_fee |-> 250, priority_fee |-> 60, gas_used_ratio |-> 100]}

NoStats == [congestion_level |-> "None"]
NoRec == [strategy |-> "None"]

FieldOf(seq, name) == [i \in 1..Len(seq) |-> seq[i][name]]

RECURSIVE SumSeq(_)
\* iter().sum()
SumSeq(seq) == IF seq = <<>> THEN 0 ELSE Head(seq) + SumSeq(Tail(seq))

\* sort_unstable followed by v[len / 2] (0-based): the element with exactly len / 2
\* elements before it in sorted order.
MedianOf(seq) ==
    LET n == Len(seq)
        k == n \div 2
    IN  CHOOSE x \in {seq[i] : i \in 1..n} :
            /\ Cardinality({i \in 1..n : seq[i] < x}) <= k
            /\ Cardinality({i \in 1..n : seq[i] <= x}) > k

Min(a, b) == IF a <= b THEN a ELSE b

\* volatility = (sqrt(variance) / mean).min(1.0), kept as its square in ten-thousandths;
\* a zero mean gives NaN or infinity, which min(1.0) turns into 1.0.
VolatilitySq(fees, mean) ==
    LET n == Len(fees)
        ss == SumSeq([i \in 1..n |-> (fees[i] - mean) * (fees[i] - mean)])
    IN  IF mean = 0 THEN 10000
        ELSE Min(10000, (ss * 10000) \div (n * mean * mean))

\* Trend: the last TrendWindow base fees against the TrendWindow before them.
TrendOf(fees) ==
    LET n == Len(fees)
    IN  IF n >= 2 * TrendWindow
        THEN LET recent == SumSeq(SubSeq(fees, n - TrendWindow + 1, n))
                 previous == SumSeq(SubSeq(fees, n - 2 * TrendWindow + 1, n - TrendWindow))
             IN  \* change_ratio = (recent_avg - previous_avg) / previous_avg against 0.05
                 IF previous = 0
                 THEN (IF recent > 0 THEN "Rising" ELSE "Stable")
                 ELSE IF (recent - previous) * 100 > 5 * previous THEN "Rising"
                 ELSE IF (recent - previous) * 100 < -5 * previous THEN "Falling"
                 ELSE "Stable"
        ELSE "Stable"

\* Congestion level of avg_gas_ratio = sum / n (ratios in hundredths).
CongestionOf(sum, n) ==
    IF sum > 95 * n THEN "Critical"
    ELSE IF sum > congestion_threshold * n THEN "High"
    ELSE IF sum > 50 * n THEN "Medium"
    ELSE "Low"

\* calculate_statistics over a non-empty history
StatisticsOf(history) ==
    LET n == Len(history)
        base_fees == FieldOf(history, "base_fee")
        priority_fees == FieldOf(history, "priority_fee")
        gas_ratios == FieldOf(history, "gas_used_ratio")
        avg_base == SumSeq(base_fees) \div n
    IN  [avg_base_fee |-> avg_base,
         avg_priority_fee |-> SumSeq(priority_fees) \div n,
         median_base_fee |-> MedianOf(base_fees),
         median_priority_fee |-> MedianOf(priority_fees),
         volatility_sq |-> VolatilitySq(base_fees, avg_base),
         trend_direction |-> TrendOf(base_fees),
         congestion_level |-> CongestionOf(SumSeq(gas_ratios), n)]

BaseMultiplier_mut(strategy) ==
    IF strategy = "Conservative" THEN 10
    ELSE IF strategy = "Aggressive" THEN 10
    ELSE IF strategy = "Emergency" THEN 15
    ELSE 11

\* base fee multiplier of a strategy, in tenths
BaseMultiplier(strategy) ==
    IF strategy = "Conservative" THEN 10
    ELSE IF strategy = "Aggressive" THEN 13
    ELSE IF strategy = "Emergency" THEN 15
    ELSE 11

\* priority fee multiplier of a strategy, in tenths
PriorityMultiplier(strategy) ==
    IF strategy = "Conservative" THEN 8
    ELSE IF strategy = "Aggressive" THEN 15
    ELSE IF strategy = "Emergency" THEN 20
    ELSE 10

\* congestion multiplier, in tenths
CongestionMultiplier(level) ==
    IF level = "Low" THEN 9
    ELSE IF level = "Medium" THEN 10
    ELSE IF level = "High" THEN 12
    ELSE 15

\* trend multiplier, in hundredths
TrendMultiplier(trend) ==
    IF trend = "Falling" THEN 95
    ELSE IF trend = "Rising" THEN 110
    ELSE 100

\* base confirmation time of a strategy, seconds
BaseConfirmationTime(strategy) ==
    IF strategy = "Conservative" THEN 180
    ELSE IF strategy = "Aggressive" THEN 30
    ELSE IF strategy = "Emergency" THEN 15
    ELSE 60

\* congestion delay factor, in tenths
CongestionDelay(level) ==
    IF level = "Low" THEN 8
    ELSE IF level = "Medium" THEN 10
    ELSE IF level = "High" THEN 15
    ELSE 20

\* confidence_base of a strategy, in hundredths
ConfidenceBase(strategy) ==
    IF strategy = "Conservative" THEN 70
    ELSE IF strategy = "Aggressive" THEN 90
    ELSE IF strategy = "Emergency" THEN 95
    ELSE 80

\* stats.volatility in hundredths, rounded down: the root of volatility_sq
VolatilityOf(stats) ==
    CHOOSE r \in 0..100 : r * r <= stats.volatility_sq /\ stats.volatility_sq < (r + 1) * (r + 1)

\* confidence_base * (1.0 - stats.volatility.min(0.5)), in ten-thousandths
ConfidenceOf(stats, strategy) ==
    ConfidenceBase(strategy) * (100 - Min(VolatilityOf(stats), 50))

ApplyLimit_mut(fee, limit) == fee

\* fee.min(limit)
ApplyLimit(fee, limit) == Min(fee, limit)

\* calculate_recommendation for given statistics
calculate_recommendation(stats, strategy) ==
    LET final == CongestionMultiplier(stats.congestion_level)
                    * TrendMultiplier(stats.trend_direction)        \* in thousandths
        base == (stats.avg_base_fee * BaseMultiplier(strategy) * final) \div 10000
        prio == (stats.avg_priority_fee * PriorityMultiplier(strategy) * final) \div 10000
        base_fee == ApplyLimit(base, max_base_fee_gwei)
        priority_fee == ApplyLimit(prio, max_priority_fee_gwei)
    IN  [strategy |-> strategy,
         base_fee |-> base_fee,
         priority_fee |-> priority_fee,
         max_fee |-> base_fee + priority_fee,
         gas_limit |-> 200000,
         confidence |-> ConfidenceOf(stats, strategy),
         estimated_confirmation_time |->
             (BaseConfirmationTime(strategy) * CongestionDelay(stats.congestion_level)) \div 10,
         stats |-> stats]     \* bookkeeping: the statistics it was computed from

\* The tasks that call update_gas_data: the gas monitoring task and another caller.
Updaters == {"monitor", "caller"}

\* history_retention_hours: GasOptimizerConfig::default, and the values drawn
default_retention_hours == 24

Retentions == {0, 1, default_retention_hours}

NoSample == [base_fee |-> 0, priority_fee |-> 0, gas_used_ratio |-> 0]

IdleUpdate == [pc |-> "idle", timestamp |-> 0, sample |-> NoSample]

GasInit(retentions) ==
    /\ gas_history = <<>>
    /\ current_stats = NoStats
    /\ strategy_cache = [s \in Strategies |-> NoRec]
    /\ gas_calls = [get |-> "idle", strategy |-> "None",
                    computed |-> NoRec, returned |-> NoRec, seen |-> 0,
                    started |-> 0]     \* bookkeeping: update_gas_data calls made
    /\ update_calls = [u \in Updaters |-> IdleUpdate]
    /\ gas_now = 0
    /\ history_retention_hours \in retentions

\* update_gas_data: the timestamp is taken, before the history lock is awaited.
UpdateStart(u, sample) ==
    /\ update_calls[u].pc = "idle"
    /\ gas_calls.started < MaxHistory
    /\ update_calls' = [update_calls EXCEPT
                          ![u] = [pc |-> "push", timestamp |-> gas_now, sample |-> sample]]
    /\ gas_calls' = [gas_calls EXCEPT !.started = @ + 1]
    /\ UNCHANGED <<gas_history, current_stats, strategy_cache, gas_now,
                   history_retention_hours>>

\* The data point built from a sample.
DataPoint(sample, timestamp) ==
    [base_fee |-> sample.base_fee, priority_fee |-> sample.priority_fee,
     gas_used_ratio |-> sample.gas_used_ratio, timestamp |-> timestamp]

\* timestamp - point.timestamp < retention_seconds on u64, with the subtraction
\* wrapping for a point newer than timestamp: the wrapped difference is never
\* below the retention.
Retained(point, timestamp) ==
    /\ point.timestamp <= timestamp
    /\ timestamp - point.timestamp < history_retention_hours

\* history.retain(..) when no subtraction overflows, or when it wraps
Retain(history, timestamp) ==
    SelectSeq(history, LAMBDA point : Retained(point, timestamp))

\* Does timestamp - point.timestamp overflow for some point?
Underflows(history, timestamp) ==
    \E k \in 1..Len(history) : history[k].timestamp > timestamp

\* history.retain(..) when the subtraction panics: the points before the
\* offending one have been filtered, the rest is left as it was.
RetainPanic(history, timestamp) ==
    LET k == CHOOSE j \in 1..Len(history) :
                 /\ history[j].timestamp > timestamp
                 /\ \A m \in 1..(j - 1) : history[m].timestamp <= timestamp
    IN  Retain(SubSeq(history, 1, k - 1), timestamp) \o SubSeq(history, k, Len(history))

\* update_gas_data, under the history write lock: the point is pushed and the
\* points older than the retention are dropped.  An overflowing subtraction
\* panics (overflow checks on: the call ends there) or wraps (overflow checks off).
UpdatePush(u) ==
    /\ update_calls[u].pc = "push"
    /\ LET timestamp == update_calls[u].timestamp
           pushed == Append(gas_history, DataPoint(update_calls[u].sample, timestamp))
       IN  \E outcome \in (IF Underflows(pushed, timestamp) THEN {"panic", "wrap"}
                           ELSE {"ok"}) :
               IF outcome = "panic"
               THEN /\ gas_history' = RetainPanic(pushed, timestamp)
                    /\ update_calls' = [update_calls EXCEPT ![u] = IdleUpdate]
               ELSE /\ gas_history' = Retain(pushed, timestamp)
                    /\ update_calls' = [update_calls EXCEPT ![u].pc = "stats"]
    /\ UNCHANGED <<current_stats, strategy_cache, gas_calls, gas_now,
                   history_retention_hours>>

\* update_gas_data: calculate_statistics, under the history read lock; an empty
\* history leaves the statistics as they are.
UpdateStatistics(u) ==
    /\ update_calls[u].pc = "stats"
    /\ current_stats' = IF gas_history = <<>> THEN current_stats
                        ELSE StatisticsOf(gas_history)
    /\ update_calls' = [update_calls EXCEPT ![u].pc = "clear"]
    /\ UNCHANGED <<gas_history, strategy_cache, gas_calls, gas_now,
                   history_retention_hours>>

\* update_gas_data: the strategy cache is cleared.
UpdateClearCache(u) ==
    /\ update_calls[u].pc = "clear"
    /\ strategy_cache' = [s \in Strategies |-> NoRec]
    /\ update_calls' = [update_calls EXCEPT ![u] = IdleUpdate]
    /\ UNCHANGED <<gas_history, current_stats, gas_calls, gas_now,
                   history_retention_hours>>

\* The gas optimizer's clock advances by one hour.
GasTick ==
    /\ gas_now < MaxGasTime
    /\ gas_now' = gas_now + 1
    /\ UNCHANGED <<gas_history, current_stats, strategy_cache, gas_calls, update_calls,
                   history_retention_hours>>

NoUpdateInProgress == \A u \in Updaters : update_calls[u].pc = "idle"

\* How many update_gas_data calls have returned.
UpdatesReturned ==
    gas_calls.started - Cardinality({u \in Updaters : update_calls[u].pc # "idle"})

\* get_recommendation: the cache is consulted; a cached recommendation is returned.
\* (seen: bookkeeping, the updates that had returned when the call began.)
GetCheckCache(strategy) ==
    /\ gas_calls.get = "idle"
    /\ IF strategy_cache[strategy] # NoRec
       THEN gas_calls' = [gas_calls EXCEPT !.strategy = strategy,
                                           !.returned = strategy_cache[strategy],
                                           !.seen = UpdatesReturned]
       ELSE gas_calls' = [gas_calls EXCEPT !.get = "calculate", !.strategy = strategy,
                                           !.returned = NoRec,
                                           !.seen = UpdatesReturned]
    /\ UNCHANGED <<gas_history, current_stats, strategy_cache, update_calls, gas_now,
                   history_retention_hours>>

\* get_recommendation: calculate_recommendation reads the current statistics.
GetCalculate ==
    /\ gas_calls.get = "calculate"
    /\ IF current_stats = NoStats
       THEN gas_calls' = [gas_calls EXCEPT !.get = "idle", !.returned = NoRec]
       ELSE gas_calls' = [gas_calls EXCEPT
                            !.get = "insert",
                            !.computed = calculate_recommendation(current_stats, gas_calls.strategy)]
    /\ UNCHANGED <<gas_history, current_stats, strategy_cache, update_calls, gas_now,
                   history_retention_hours>>

\* get_recommendation: the result is cached and returned.
GetInsert ==
    /\ gas_calls.get = "insert"
    /\ strategy_cache' = [strategy_cache EXCEPT ![gas_calls.strategy] = gas_calls.computed]
    /\ gas_calls' = [gas_calls EXCEPT !.get = "idle", !.returned = gas_calls.computed,
                                      !.computed = NoRec]
    /\ UNCHANGED <<gas_history, current_stats, update_calls, gas_now,
                   history_retention_hours>>

\* The monitoring task's updates against get_recommendation calls, within one
\* retention window.
GasNext ==
    \/ \E sample \in GasSamples : UpdateStart("monitor", sample) /\ gasOnly
    \/ UpdatePush("monitor") /\ gasOnly
    \/ UpdateStatistics("monitor") /\ gasOnly
    \/ UpdateClearCache("monitor") /\ gasOnly
    \/ \E strategy \in Strategies : GetCheckCache(strategy) /\ gasOnly
    \/ GetCalculate /\ gasOnly
    \/ GetInsert /\ gasOnly

\* Concurrent update_gas_data calls while the clock advances.
GasHistoryNext ==
    \/ \E u \in Updaters, sample \in GasSamples : UpdateStart(u, sample) /\ gasOnly
    \/ \E u \in Updaters : UpdatePush(u) /\ gasOnly
    \/ \E u \in Updaters : UpdateStatistics(u) /\ gasOnly
    \/ \E u \in Updaters : UpdateClearCache(u) /\ gasOnly
    \/ GasTick /\ gasOnly

(***************************************************************************)
(* suggest_strategy and is_favorable_for_trading                           *)
(***************************************************************************)
Queries == {"suggest_strategy", "is_favorable_for_trading"}

\* priority: u8, below and above the thresholds of suggest_strategy.
TradePriorities == {3, 5, 6, 8}

\* max_cost_eth in gwei (None, 0.001 ETH, 0.1 ETH).
NoBudget == [some |-> FALSE, max_cost |-> 0]
Budgets == {NoBudget} \cup [some : {TRUE}, max_cost : {1000000, 100000000}]

\* estimated_cost_eth of a recommendation, in gwei.
EstimatedCost(recommendation) == recommendation.max_fee * recommendation.gas_limit

\* The caller's call of suggest_strategy or is_favorable_for_trading.
IdleQuery ==
    [call |-> "None", pc |-> "idle", priority |-> 0, budget |-> NoBudget,
     computed |-> NoRec, result |-> "None",
     after |-> FALSE,     \* bookkeeping: an update had returned when the call began
     before |-> FALSE]    \* bookkeeping: no update had begun when the call returned

QueryInit == queries = IdleQuery

\* The call returns result.
QueryReturn(call, result) ==
    queries' = [call EXCEPT !.pc = "idle", !.result = result, !.computed = NoRec,
                            !.priority = 0, !.budget = NoBudget,
                            !.before = (gas_calls.started = 0)]

\* suggest_strategy: the default by priority.
ByPriority(priority) == IF priority >= 4 THEN "Standard" ELSE "Conservative"

\* The call's use of the Standard recommendation it obtained.
QueryFinish_mut(recommendation) ==
    QueryReturn(queries, "Err")

QueryFinish(recommendation) ==
    IF queries.call = "suggest_strategy"
    THEN QueryReturn(queries, IF EstimatedCost(recommendation) > queries.budget.max_cost
                              THEN "Conservative"
                              ELSE ByPriority(queries.priority))
    ELSE QueryReturn(queries, IF EstimatedCost(recommendation) <= queries.budget.max_cost
                              THEN "true" ELSE "false")

\* Both calls begin by reading the current statistics; without statistics they
\* return an error.
QueryStats(c, priority, budget) ==
    /\ queries.pc = "idle"
    /\ c = "is_favorable_for_trading" => budget.some /\ priority = 0
    /\ c = "suggest_strategy" => priority \in TradePriorities
    /\ LET call == [IdleQuery EXCEPT !.call = c, !.priority = priority, !.budget = budget,
                                     !.after = (UpdatesReturned >= 1)]
       IN  IF current_stats = NoStats THEN QueryReturn(call, "Err")
           ELSE IF c = "suggest_strategy"
           THEN IF priority >= 8 \/ current_stats.congestion_level = "Critical"
                THEN QueryReturn(call, "Emergency")
                ELSE IF priority >= 6 THEN QueryReturn(call, "Aggressive")
                ELSE IF budget.some THEN queries' = [call EXCEPT !.pc = "cache"]
                ELSE QueryReturn(call, ByPriority(priority))
           ELSE IF current_stats.congestion_level = "Critical"
                THEN QueryReturn(call, "false")
                ELSE queries' = [call EXCEPT !.pc = "cache"]
    /\ UNCHANGED gasVars

\* get_recommendation(Standard) within the call: the cache is consulted.
QueryCheckCache ==
    /\ queries.pc = "cache"
    /\ IF strategy_cache["Standard"] # NoRec
       THEN QueryFinish(strategy_cache["Standard"])
       ELSE queries' = [queries EXCEPT !.pc = "calculate"]
    /\ UNCHANGED gasVars

\* get_recommendation(Standard) within the call: calculate_recommendation.
QueryCalculate ==
    /\ queries.pc = "calculate"
    /\ IF current_stats = NoStats
       THEN QueryReturn(queries, "Err")
       ELSE queries' = [queries EXCEPT
                          !.pc = "insert",
                          !.computed = calculate_recommendation(current_stats, "Standard")]
    /\ UNCHANGED gasVars

\* get_recommendation(Standard) within the call: the result is cached.
QueryInsert ==
    /\ queries.pc = "insert"
    /\ strategy_cache' = [strategy_cache EXCEPT !["Standard"] = queries.computed]
    /\ QueryFinish(queries.computed)
    /\ UNCHANGED <<gas_history, current_stats, gas_calls, update_calls, gas_now,
                   history_retention_hours>>

\* The monitoring task's updates against a caller that makes one call of
\* get_recommendation, suggest_strategy or is_favorable_for_trading at a time.
GasQueryNext ==
    \/ \E sample \in GasSamples : UpdateStart("monitor", sample) /\ gasOnly
    \/ UpdatePush("monitor") /\ gasOnly
    \/ UpdateStatistics("monitor") /\ gasOnly
    \/ UpdateClearCache("monitor") /\ gasOnly
    \/ queries.pc = "idle" /\ GetCheckCache("Standard") /\ gasOnly
    \/ GetCalculate /\ gasOnly
    \/ GetInsert /\ gasOnly
    \/ \E c \in Queries, priority \in TradePriorities \cup {0}, budget \in Budgets :
           gas_calls.get = "idle" /\ QueryStats(c, priority, budget) /\ gasQueryOnly
    \/ QueryCheckCache /\ gasQueryOnly
    \/ QueryCalculate /\ gasQueryOnly
    \/ QueryInsert /\ gasQueryOnly

(***************************************************************************)
(* calculate_recommendation over the statistics a history can produce      *)
(***************************************************************************)
StatsInputs ==
    [avg_base_fee : {0, 30, 199, 250}, avg_priority_fee : {2, 40, 60},
     trend_direction : {"Rising", "Falling", "Stable"},
     congestion_level : {"Low", "Medium", "High", "Critical"},
     volatility_sq : {0, 900, 10000}]

RecInit(inputs) ==
    /\ rec_stats \in inputs
    /\ rec_out = [s \in Strategies |-> NoRec]

Recommend(strategy) ==
    /\ rec_out[strategy] = NoRec
    /\ rec_out' = [rec_out EXCEPT ![strategy] = calculate_recommendation(rec_stats, strategy)]
    /\ UNCHANGED rec_stats

RecNext == \E strategy \in Strategies : Recommend(strategy) /\ recOnly

(***************************************************************************)
(* Price aggregation                                                       *)
(* Prices are in hundredths of a dollar; the f64 arithmetic of the source  *)
(* is modelled by exact rational arithmetic.                               *)
(***************************************************************************)
outlier_threshold == 3       \* PriceFeedConfig::default: 3.0 standard deviations

SourcePrices == {100, 102, 105, 110, 500}

NoAggregate == [sources_count |-> 0, outlier_detected |-> FALSE]

\* detect_outliers: with mean = S / n and std_dev = sqrt(SS / (n - 1)), where
\* SS is the sum of the squared deviations, |p - mean| / std_dev > threshold is
\* (n p - S)^2 (n - 1) > threshold^2 * sum of (n q - S)^2.
detect_outliers_at_mut(prices, threshold) ==
    LET n == Len(prices)
        S == SumSeq(prices)
        dev(i) == (n * prices[i] - S) * (n * prices[i] - S)
        SS == SumSeq([i \in 1..n |-> dev(i)])
    IN  IF n < 3 THEN FALSE
        ELSE IF SS = 0 THEN FALSE
        ELSE \E i \in 1..n : dev(i) * n > threshold * threshold * SS

detect_outliers_at(prices, threshold) ==
    LET n == Len(prices)
        S == SumSeq(prices)
        dev(i) == (n * prices[i] - S) * (n * prices[i] - S)
        SS == SumSeq([i \in 1..n |-> dev(i)])
    IN  IF n < 3 THEN FALSE
        ELSE IF SS = 0 THEN FALSE
        ELSE \E i \in 1..n : dev(i) * (n - 1) > threshold * threshold * SS

\* detect_outliers under PriceFeedConfig::default
detect_outliers(prices) == detect_outliers_at(prices, outlier_threshold)

RECURSIVE SeqsUpTo(_, _)
\* the sequences over S of length 1 .. n
SeqsUpTo(S, n) ==
    IF n = 0 THEN {}
    ELSE LET shorter == SeqsUpTo(S, n - 1)
         IN  {<<x>> : x \in S} \cup shorter \cup
             {Append(q, x) : q \in {r \in shorter : Len(r) = n - 1}, x \in S}

PriceInit(inputs) ==
    /\ price_in \in inputs
    /\ price_out = NoAggregate

\* aggregate_prices: sources_count and outlier_detected of the AggregatedPrice
AggregatePrices ==
    /\ price_out = NoAggregate
    /\ price_out' = [sources_count |-> Len(price_in),
                     outlier_detected |-> detect_outliers(price_in)]
    /\ UNCHANGED price_in

PriceNext == AggregatePrices /\ priceOnly

\* The values of PriceFeedConfig.outlier_threshold drawn, in standard deviations.
OutlierThresholds == {1, outlier_threshold}

OutlierInputs == [prices : SeqsUpTo(SourcePrices, MaxSources), threshold : OutlierThresholds]

OutlierInit(inputs) ==
    /\ outlier_in \in inputs
    /\ outlier_out = "None"

\* detect_outliers(prices)
DetectOutliers ==
    /\ outlier_out = "None"
    /\ outlier_out' = IF detect_outliers_at(outlier_in.prices, outlier_in.threshold)
                      THEN "Outlier" ELSE "NoOutlier"
    /\ UNCHANGED outlier_in

OutlierNext == DetectOutliers /\ outlierOnly

(***************************************************************************)
(* Priority of the order submitted for an opportunity                      *)
(* (Bot::calculate_order_priority).  Profit and price impact are in        *)
(* hundredths.  The function reads opportunity.profit_percentage, which is *)
(* the opportunity's expected profit as a fraction.                        *)
(***************************************************************************)
OpportunityProfits == {0, 1, 2, 3, 5, 6, 10, 11, 15, 16, 20, 25}

OpportunityImpacts == {0, 1, 2, 5, 10}

Opportunities == [expected_profit : OpportunityProfits, price_impact : OpportunityImpacts]

calculate_order_priority(opportunity) ==
    IF opportunity.expected_profit > 10 THEN "High"
    ELSE IF opportunity.expected_profit > 5 THEN "Medium"
    ELSE IF opportunity.expected_profit > 2 THEN "Low"
    ELSE "VeryLow"

PriorityInit(inputs) ==
    /\ prio_in \in inputs
    /\ prio_out = "None"

CalculatePriority ==
    /\ prio_out = "None"
    /\ prio_out' = calculate_order_priority(prio_in)
    /\ UNCHANGED prio_in

PriorityNext == CalculatePriority /\ prioOnly

(***************************************************************************)
(* Readiness of an order with ExecutionStrategy::Delayed                   *)
(* The order is created at instant created_ms with delay delay_ms and      *)
(* asked elapsed_ms later; all three are in milliseconds.                  *)
(***************************************************************************)
CreationInstants == {0, 900, 999}

Delays == {100, 1000, 1500}

ElapsedTimes == {0, 1, 50, 100, 150, 999, 1000, 1500, 2000}

DelayedInputs ==
    [created_ms : CreationInstants, delay_ms : Delays, elapsed_ms : ElapsedTimes]

\* Order::new with ExecutionStrategy::Delayed(delay_ms) at instant created_ms
DelayedOrder(created_ms, delay_ms) ==
    [OrderNew(2, 0, 30, AsSecs(created_ms)) EXCEPT !.strategy = "Delayed",
                                                   !.strategy_arg = delay_ms]

ReadyInit(inputs) ==
    /\ ready_in \in inputs
    /\ ready_out = "None"

CheckReady ==
    /\ ready_out = "None"
    /\ ready_out' =
          IF should_execute_now(DelayedOrder(ready_in.created_ms, ready_in.delay_ms),
                                AsSecs(ready_in.created_ms + ready_in.elapsed_ms))
          THEN "Ready" ELSE "NotReady"
    /\ UNCHANGED ready_in

ReadyNext == CheckReady /\ readyOnly

(***************************************************************************)
(* fetch_price_from_source: the retry loop around one price source.  A     *)
(* step is one evaluation of the loop condition, one call of the source    *)
(* or one sleep.  A supported source answers every call, with a quote or   *)
(* with an error; an unsupported one answers with an error.                *)
(***************************************************************************)
target_tokens == <<"tokenA", "tokenB">>

Tokens == {target_tokens[k] : k \in 1..Len(target_tokens)}

PriceSources ==
    {"CoinGecko", "CoinMarketCap", "UniswapV2", "UniswapV3", "DexScreener", "Custom"}

\* fetch_price_with_retry: the sources it has a fetcher for
SupportedSources == {"CoinGecko", "UniswapV2", "UniswapV3", "DexScreener"}

\* The calls made: token, source and PriceFeedConfig.max_retry_attempts.
FetchInputs ==
    [token : Tokens, source : PriceSources, max_retry_attempts : 0..MaxFetchAttempts]

FetchInit(inputs) ==
    \E in \in inputs :
        fetch = [pc |-> "loop", token |-> in.token, source |-> in.source,
                 max_retry_attempts |-> in.max_retry_attempts,
                 attempts |-> 0,
                 result |-> "None",
                 calls |-> 0,        \* bookkeeping: calls of the source made
                 sleeps |-> 0,       \* bookkeeping: sleeps of retry_delay_ms taken
                 last |-> "none"]    \* bookkeeping: the last thing done, a call or a sleep

FetchAgain_mut(attempts, f) == attempts <= f.max_retry_attempts

\* attempts < self.config.max_retry_attempts
FetchAgain(attempts, f) == attempts < f.max_retry_attempts

\* while attempts < max_retry_attempts { .. }  Err(..)
FetchLoop ==
    /\ fetch.pc = "loop"
    /\ fetch' = IF FetchAgain(fetch.attempts, fetch)
                THEN [fetch EXCEPT !.pc = "call"]
                ELSE [fetch EXCEPT !.pc = "done", !.result = "Err"]

\* fetch_price_with_retry(token_address, source).await: Ok returns the quote, Err
\* counts the attempt and sleeps if another attempt follows.
FetchCall(ok) ==
    /\ fetch.pc = "call"
    /\ ok => fetch.source \in SupportedSources
    /\ fetch' = IF ok
                THEN [fetch EXCEPT !.pc = "done", !.result = "Ok",
                                   !.calls = @ + 1, !.last = "call"]
                ELSE [fetch EXCEPT !.pc = IF FetchAgain(fetch.attempts + 1, fetch)
                                          THEN "sleep" ELSE "loop",
                                   !.attempts = @ + 1,
                                   !.calls = @ + 1, !.last = "call"]

\* sleep(Duration::from_millis(retry_delay_ms)).await
FetchSleep ==
    /\ fetch.pc = "sleep"
    /\ fetch' = [fetch EXCEPT !.pc = "loop", !.sleeps = @ + 1, !.last = "sleep"]

FetchNext ==
    \/ FetchLoop /\ fetchOnly
    \/ \E ok \in BOOLEAN : FetchCall(ok) /\ fetchOnly
    \/ FetchSleep /\ fetchOnly

(***************************************************************************)
(* Price feed monitor: the start_monitoring task.  A step is one pass of   *)
(* the loop head, the fetches of one update_token_price call, the rest of  *)
(* that call, the counting of its result, or update_metrics.  Prices and   *)
(* volumes are exact rationals <<numerator, denominator>>; confidences and *)
(* thresholds are in hundredths.  The log keeps MaxAlertsKept alerts and a *)
(* history MaxQuotesKept quotes where the source keeps 100 and 1000.       *)
(***************************************************************************)
enabled_sources == <<"CoinGecko", "UniswapV2">>

\* confidence of the quotes of a source, in hundredths
Confidence(source) == IF source = "CoinGecko" THEN 90 ELSE 80

price_change_percent == 5
volume_spike_percent == 200
volatility_threshold == 50      \* 0.5, in hundredths

\* What a source can answer: a price (hundredths of a dollar) and a volume.
FeedQuotes == {[price_usd |-> 100, volume_24h |-> 1000],
               [price_usd |-> 300, volume_24h |-> 4000]}

NoQuote == [price_usd |-> 0, volume_24h |-> 0]

NoCached == [sources_count |-> 0]

Zero == <<0, 1>>

\* The PriceData of a quote.
PriceDataOf(token, source, quote) ==
    [token_address |-> token, price_usd |-> quote.price_usd,
     volume_24h |-> quote.volume_24h, source |-> source,
     confidence |-> Confidence(source)]

\* calculate_volatility squared: the variance over the squared mean, which with
\* S the sum of the n prices is sum of (n p - S)^2 over (n - 1) S^2.
calculate_volatility_sq(prices) ==
    LET n == Len(prices)
        S == SumSeq(prices)
        SS == SumSeq([i \in 1..n |-> (n * prices[i] - S) * (n * prices[i] - S)])
    IN  IF n < 2 THEN Zero ELSE <<SS, (n - 1) * S * S>>

\* aggregate_prices, for a non-empty price_data_vec
aggregate_prices(price_data_vec) ==
    LET n == Len(price_data_vec)
        prices == [i \in 1..n |-> price_data_vec[i].price_usd]
        total_weight == SumSeq([i \in 1..n |-> price_data_vec[i].confidence])
    IN  [token_address |-> price_data_vec[1].token_address,
         price_usd |-> <<SumSeq([i \in 1..n |-> price_data_vec[i].price_usd
                                                  * price_data_vec[i].confidence]),
                         total_weight>>,
         volume_24h |-> <<SumSeq([i \in 1..n |-> price_data_vec[i].volume_24h]), n>>,
         sources_count |-> n,
         volatility_sq |-> calculate_volatility_sq(prices),
         outlier_detected |-> detect_outliers(prices)]

Abs(x) == IF x < 0 THEN -x ELSE x

\* ((new - old) / old).abs() * 100.0 > percent, for rationals new and old > 0
ChangeExceeds(new, old, percent) ==
    100 * Abs(new[1] * old[2] - old[1] * new[2]) > percent * old[1] * new[2]

\* new > old
Greater(new, old) == new[1] * old[2] > old[1] * new[2]

get_cached_price_mut(cache, token_address) ==
    cache[CHOOSE t \in Tokens : t # token_address]

\* get_cached_price
get_cached_price(cache, token_address) == cache[token_address]

Alert(aggregated_price, alert_type, old_price, new_price) ==
    [token_address |-> aggregated_price.token_address, alert_type |-> alert_type,
     old_price |-> old_price, new_price |-> new_price]

\* check_price_alerts: the alerts raised for an aggregated price, given the
\* price cached for its token before (or NoCached).
NewAlerts(aggregated_price, previous_price) ==
    (IF /\ previous_price # NoCached
        /\ ChangeExceeds(aggregated_price.price_usd, previous_price.price_usd,
                         price_change_percent)
     THEN <<Alert(aggregated_price,
                  IF Greater(aggregated_price.price_usd, previous_price.price_usd)
                  THEN "PriceSpike" ELSE "PriceDrop",
                  previous_price.price_usd, aggregated_price.price_usd)>>
     ELSE <<>>)
    \o
    (IF /\ previous_price # NoCached
        /\ ChangeExceeds(aggregated_price.volume_24h, previous_price.volume_24h,
                         volume_spike_percent)
     THEN <<Alert(aggregated_price, "VolumeSpike",
                  previous_price.volume_24h, aggregated_price.volume_24h)>>
     ELSE <<>>)
    \o
    (IF 10000 * aggregated_price.volatility_sq[1]
           > volatility_threshold * volatility_threshold * aggregated_price.volatility_sq[2]
     THEN <<Alert(aggregated_price, "VolatilityAlert", Zero,
                  aggregated_price.volatility_sq)>>
     ELSE <<>>)
    \o
    (IF aggregated_price.outlier_detected
     THEN <<Alert(aggregated_price, "OutlierDetected", Zero, aggregated_price.price_usd)>>
     ELSE <<>>)

KeepLast_mut(store, n) ==
    IF Len(store) > n THEN SubSeq(store, 1, n) ELSE store

\* if store.len() > n { store.drain(0..store.len() - n) }
KeepLast(store, n) ==
    IF Len(store) > n THEN SubSeq(store, Len(store) - n + 1, Len(store)) ELSE store

\* The entries numbered in order of arrival, from first + 1 on (bookkeeping).
Numbered(entries, first) ==
    [k \in 1..Len(entries) |-> [entry |-> entries[k], arrival |-> first + k]]

RECURSIVE PushAll(_, _, _)
\* update_price_history for one token: each quote is pushed, and the history cut
\* back to its newest MaxQuotesKept entries, in turn.
PushAll(history, price_data_vec, first) ==
    IF price_data_vec = <<>> THEN history
    ELSE PushAll(KeepLast(Append(history, [entry |-> Head(price_data_vec),
                                           arrival |-> first + 1]),
                          MaxQuotesKept),
                 Tail(price_data_vec), first + 1)

increment_failed_updates_mut(m) ==
    [m EXCEPT !.failed_updates = @ + 1, !.total_updates = @ + 1,
              !.successful_updates = @ + 1]

increment_failed_updates(m) ==
    [m EXCEPT !.failed_updates = @ + 1, !.total_updates = @ + 1]

increment_successful_updates(m) ==
    [m EXCEPT !.successful_updates = @ + 1, !.total_updates = @ + 1]

\* get_recent_alerts: alerts.iter().rev().take(limit)
get_recent_alerts(limit) ==
    LET n == Min(limit, Len(alerts))
    IN  [k \in 1..n |-> alerts[Len(alerts) - k + 1].entry]

FeedInit ==
    /\ price_cache = [t \in Tokens |-> NoCached]
    /\ price_history = [t \in Tokens |-> <<>>]
    /\ alerts = <<>>
    /\ feed_metrics = [total_updates |-> 0, successful_updates |-> 0,
                       failed_updates |-> 0, alerts_generated |-> 0,
                       cache_hit_rate |-> 0]
    /\ shutdown_signal = FALSE
    /\ monitor = [pc |-> "check", index |-> 1, price_data_vec |-> <<>>,
                  result |-> "None",
                  rounds |-> 0,                          \* passes of the loop made
                  quotes_appended |-> [t \in Tokens |-> 0], \* bookkeeping
                  alerts_appended |-> 0]                 \* bookkeeping

\* start_monitoring(tokens), loop head: the shutdown signal is read.
MonitorCheckFor(tokens) ==
    /\ monitor.pc = "check"
    /\ monitor' = [monitor EXCEPT
                     !.pc = IF shutdown_signal THEN "stopped"
                            ELSE IF Len(tokens) > 0 THEN "fetch" ELSE "metrics",
                     !.index = 1]
    /\ UNCHANGED <<price_cache, price_history, alerts, feed_metrics, shutdown_signal>>

MonitorCheckShutdown == MonitorCheckFor(target_tokens)

\* update_token_price: every enabled source is asked through
\* fetch_price_from_source, and the quotes of those that answer are collected.
MonitorFetchFor(tokens, answers) ==
    /\ monitor.pc = "fetch"
    /\ LET token == tokens[monitor.index]
           answered == SelectSeq([k \in 1..Len(enabled_sources) |-> k],
                                 LAMBDA k : answers[k] # NoQuote)
       IN  monitor' = [monitor EXCEPT
                         !.pc = "apply",
                         !.price_data_vec =
                             [j \in 1..Len(answered) |->
                                 PriceDataOf(token, enabled_sources[answered[j]],
                                             answers[answered[j]])]]
    /\ UNCHANGED <<price_cache, price_history, alerts, feed_metrics, shutdown_signal>>

MonitorFetch(answers) ==
    /\ feed_metrics.total_updates < MaxUpdates
    /\ MonitorFetchFor(target_tokens, answers)

\* update_token_price, after the fetches: without a quote it returns an error,
\* otherwise the quotes are aggregated, the alerts checked and stored, the cache
\* replaced and the history extended.
MonitorApply ==
    /\ monitor.pc = "apply"
    /\ IF monitor.price_data_vec = <<>>
       THEN /\ monitor' = [monitor EXCEPT !.pc = "count", !.result = "Err"]
            /\ UNCHANGED <<price_cache, price_history, alerts, feed_metrics>>
       ELSE LET aggregated_price == aggregate_prices(monitor.price_data_vec)
                token == aggregated_price.token_address
                new == NewAlerts(aggregated_price, get_cached_price(price_cache, token))
            IN  /\ alerts' = IF new = <<>> THEN alerts
                             ELSE KeepLast(alerts \o Numbered(new, monitor.alerts_appended),
                                           MaxAlertsKept)
                /\ feed_metrics' = IF new = <<>> THEN feed_metrics
                                   ELSE [feed_metrics EXCEPT !.alerts_generated = @ + 1]
                /\ price_cache' = [price_cache EXCEPT ![token] = aggregated_price]
                /\ price_history' =
                      [price_history EXCEPT
                         ![token] = PushAll(@, monitor.price_data_vec,
                                            monitor.quotes_appended[token])]
                /\ monitor' = [monitor EXCEPT
                                 !.pc = "count", !.result = "Ok",
                                 !.price_data_vec = <<>>,
                                 !.alerts_appended = @ + Len(new),
                                 !.quotes_appended[token] =
                                     @ + Len(monitor.price_data_vec)]
    /\ UNCHANGED shutdown_signal

\* start_monitoring: the result of update_token_price is counted, and the loop
\* goes on with the next token.
MonitorCountFor(tokens) ==
    /\ monitor.pc = "count"
    /\ feed_metrics' = IF monitor.result = "Err"
                       THEN increment_failed_updates(feed_metrics)
                       ELSE increment_successful_updates(feed_metrics)
    /\ monitor' = [monitor EXCEPT
                     !.pc = IF monitor.index < Len(tokens) THEN "fetch" ELSE "metrics",
                     !.index = @ + 1,
                     !.result = "None"]
    /\ UNCHANGED <<price_cache, price_history, alerts, shutdown_signal>>

MonitorCount == MonitorCountFor(target_tokens)

\* start_monitoring: update_metrics, then the task waits for the next interval.
\* (The update duration, and so average_update_time_ms, is left out.)
MonitorMetrics ==
    /\ monitor.pc = "metrics"
    /\ feed_metrics.total_updates > 0
    /\ feed_metrics' = [feed_metrics EXCEPT
                          !.cache_hit_rate = (100 * feed_metrics.successful_updates)
                                                 \div feed_metrics.total_updates]
    /\ monitor' = [monitor EXCEPT !.pc = "check", !.rounds = @ + 1]
    /\ UNCHANGED <<price_cache, price_history, alerts, shutdown_signal>>

\* shutdown
Shutdown ==
    /\ ~shutdown_signal
    /\ shutdown_signal' = TRUE
    /\ UNCHANGED <<price_cache, price_history, alerts, feed_metrics, monitor>>

\* total_updates - 1 when total_updates is 0, and the divisions by it.
UnderflowOutcomes == {"panic", "wrap"}

\* cache_hit_rate = 0.0 / 0.0
NaN == -1

\* update_metrics with total_updates = 0: the subtraction on u64 panics where
\* overflow checks are compiled in; where they are not it wraps, the mean and
\* the hit rate are divided by 0.0 and the loop goes on.
MonitorMetricsUnderflow(outcome) ==
    /\ monitor.pc = "metrics"
    /\ feed_metrics.total_updates = 0
    /\ IF outcome = "panic"
       THEN /\ monitor' = [monitor EXCEPT !.pc = "panicked"]
            /\ UNCHANGED feed_metrics
       ELSE /\ monitor' = [monitor EXCEPT !.pc = "check"]
            /\ feed_metrics' = [feed_metrics EXCEPT !.cache_hit_rate = NaN]
    /\ UNCHANGED <<price_cache, price_history, alerts, shutdown_signal>>

\* The lists start_monitoring is called with.
TokenLists == {<<>>, <<"tokenA">>, target_tokens}

LoopInit(lists) == start_tokens \in lists

\* A pass of the loop is begun while its updates stay within MaxUpdates, or to
\* observe the shutdown signal.
LoopCheck ==
    /\ shutdown_signal \/ feed_metrics.total_updates + Len(start_tokens) <= MaxUpdates
    /\ MonitorCheckFor(start_tokens)

\* The steps of start_monitoring(start_tokens).
LoopStep ==
    \/ LoopCheck /\ loopOnly
    \/ \E answers \in [1..Len(enabled_sources) -> FeedQuotes \cup {NoQuote}] :
           MonitorFetchFor(start_tokens, answers) /\ loopOnly
    \/ MonitorApply /\ loopOnly
    \/ MonitorCountFor(start_tokens) /\ loopOnly
    \/ MonitorMetrics /\ loopOnly
    \/ \E outcome \in UnderflowOutcomes : MonitorMetricsUnderflow(outcome) /\ loopOnly

\* start_monitoring for any token list, against a caller of shutdown.
FeedLoopNext ==
    \/ LoopStep
    \/ Shutdown /\ loopOnly

FeedNext ==
    \/ MonitorCheckShutdown /\ feedOnly
    \/ \E answers \in [1..Len(enabled_sources) -> FeedQuotes \cup {NoQuote}] :
           MonitorFetch(answers) /\ feedOnly
    \/ MonitorApply /\ feedOnly
    \/ MonitorCount /\ feedOnly
    \/ MonitorMetrics /\ feedOnly
    \/ Shutdown /\ feedOnly

(***************************************************************************)
(* Specifications                                                          *)
(***************************************************************************)
\* Inputs of the pure functions held fixed while another component runs.
IdleStats ==
    [avg_base_fee |-> 0, avg_priority_fee |-> 2,
     trend_direction |-> "Stable", congestion_level |-> "Low", volatility_sq |-> 0]

IdlePrices == <<100>>

IdleOpportunity == [expected_profit |-> 0, price_impact |-> 0]

IdleDelay == [created_ms |-> 0, delay_ms |-> 100, elapsed_ms |-> 0]

\* The components other than the pure functions, in their initial state.
IdleOutlier == [prices |-> IdlePrices, threshold |-> outlier_threshold]

IdleFetch == [token |-> "tokenA", source |-> "CoinGecko", max_retry_attempts |-> 3]

CoreInit ==
    /\ QueueInit /\ TxInit /\ GasInit({default_retention_hours})
    /\ FeedInit /\ FetchInit({IdleFetch})
    /\ OutlierInit({IdleOutlier})
    /\ QueryInit
    /\ LockInit
    /\ LoopInit({target_tokens})
    /\ DexInit({0})

\* One component runs at a time, the others rest in their initial state.
Init ==
    /\ CoreInit
    /\ RecInit({IdleStats}) /\ PriceInit({IdlePrices})
    /\ PriorityInit({IdleOpportunity}) /\ ReadyInit({IdleDelay})

InitRec ==
    /\ CoreInit
    /\ RecInit(StatsInputs) /\ PriceInit({IdlePrices})
    /\ PriorityInit({IdleOpportunity}) /\ ReadyInit({IdleDelay})

InitPrice ==
    /\ CoreInit
    /\ RecInit({IdleStats}) /\ PriceInit(SeqsUpTo(SourcePrices, MaxSources))
    /\ PriorityInit({IdleOpportunity}) /\ ReadyInit({IdleDelay})

InitPriority ==
    /\ CoreInit
    /\ RecInit({IdleStats}) /\ PriceInit({IdlePrices})
    /\ PriorityInit(Opportunities) /\ ReadyInit({IdleDelay})

InitReady ==
    /\ CoreInit
    /\ RecInit({IdleStats}) /\ PriceInit({IdlePrices})
    /\ PriorityInit({IdleOpportunity}) /\ ReadyInit(DelayedInputs)

SpecQueue == Init /\ [][QueueNext]_vars

SpecEvents == Init /\ [][EventNext]_vars

SpecTx == Init /\ [][TxNext]_vars

SpecGas == Init /\ [][GasNext]_vars

InitGasHistory ==
    /\ QueueInit /\ TxInit /\ GasInit(Retentions)
    /\ FeedInit /\ FetchInit({IdleFetch})
    /\ OutlierInit({IdleOutlier})
    /\ QueryInit
    /\ LockInit
    /\ LoopInit({target_tokens})
    /\ DexInit({0})
    /\ RecInit({IdleStats}) /\ PriceInit({IdlePrices})
    /\ PriorityInit({IdleOpportunity}) /\ ReadyInit({IdleDelay})

SpecGasHistory == InitGasHistory /\ [][GasHistoryNext]_vars

SpecFeed == Init /\ [][FeedNext]_vars

InitFetch ==
    /\ QueueInit /\ TxInit /\ GasInit({default_retention_hours})
    /\ FeedInit /\ FetchInit(FetchInputs)
    /\ OutlierInit({IdleOutlier})
    /\ QueryInit
    /\ LockInit
    /\ LoopInit({target_tokens})
    /\ DexInit({0})
    /\ RecInit({IdleStats}) /\ PriceInit({IdlePrices})
    /\ PriorityInit({IdleOpportunity}) /\ ReadyInit({IdleDelay})

InitFeedLoop ==
    /\ QueueInit /\ TxInit /\ GasInit({default_retention_hours})
    /\ FeedInit /\ FetchInit({IdleFetch})
    /\ OutlierInit({IdleOutlier})
    /\ QueryInit
    /\ LockInit
    /\ LoopInit(TokenLists)
    /\ DexInit({0})
    /\ RecInit({IdleStats}) /\ PriceInit({IdlePrices})
    /\ PriorityInit({IdleOpportunity}) /\ ReadyInit({IdleDelay})

InitDex ==
    /\ QueueInit /\ TxInit /\ GasInit({default_retention_hours})
    /\ FeedInit /\ FetchInit({IdleFetch})
    /\ OutlierInit({IdleOutlier})
    /\ QueryInit
    /\ LockInit
    /\ LoopInit({target_tokens})
    /\ DexInit(0..MaxReconnects)
    /\ RecInit({IdleStats}) /\ PriceInit({IdlePrices})
    /\ PriorityInit({IdleOpportunity}) /\ ReadyInit({IdleDelay})

\* Both tasks are scheduled again after every await; the stream of the
\* subscription delivers what it delivers.
SpecDex == InitDex /\ [][DexNext]_vars /\ WF_vars(DexTaskStep)

\* The monitoring task is scheduled again after every await.
SpecFeedLoop == InitFeedLoop /\ [][FeedLoopNext]_vars /\ WF_vars(LoopStep)

\* Every call of a source returns and the task is scheduled again after a sleep.
SpecFetch == InitFetch /\ [][FetchNext]_vars /\ WF_vars(FetchNext)

InitOutlier ==
    /\ QueueInit /\ TxInit /\ GasInit({default_retention_hours})
    /\ FeedInit /\ FetchInit({IdleFetch})
    /\ OutlierInit(OutlierInputs)
    /\ QueryInit
    /\ LockInit
    /\ LoopInit({target_tokens})
    /\ DexInit({0})
    /\ RecInit({IdleStats}) /\ PriceInit({IdlePrices})
    /\ PriorityInit({IdleOpportunity}) /\ ReadyInit({IdleDelay})

SpecLocks == Init /\ [][LockNext]_vars /\ WF_vars(LockNext)
SpecGasQuery == Init /\ [][GasQueryNext]_vars
SpecOutlier == InitOutlier /\ [][OutlierNext]_vars

SpecRec == InitRec /\ [][RecNext]_vars

SpecPrice == InitPrice /\ [][PriceNext]_vars

SpecPriority == InitPriority /\ [][PriorityNext]_vars

SpecReady == InitReady /\ [][ReadyNext]_vars

(***************************************************************************)
(* Properties                                                              *)
(***************************************************************************)

\* C1 (SpecQueue): of two ready orders held in the queue at the same time, the one
\* of the higher priority tier is ordered ahead of the other (it compares Greater,
\* so the other is not the one taken next), whatever their expected profits and
\* creation times.
C1_TierOrdersFirst ==
    \A a \in Ready, b \in Ready :
        orders[a].priority > orders[b].priority
            => /\ OrderCmp(orders[a], orders[b]) = "Greater"
               /\ b \notin Top

\* C2 (SpecTx): for a request taken through prepare, sign_transaction,
\* submit_transaction and wait_for_confirmation one after the other, the request
\* returned by wait_for_confirmation and the recorded status are Confirmed for a
\* receipt with status 1 and Failed(Transaction reverted) for one with status 0.
C2_RoundTrip ==
    \A i \in TxIds :
        (calls[i].wait = "ok" /\ calls[i].in_order) =>
            /\ calls[i].receipt = "status1" =>
                  /\ calls[i].returned.status = "Confirmed"
                  /\ get_transaction_status(i) = "Confirmed"
            /\ calls[i].receipt = "status0" =>
                  /\ calls[i].returned.status = "Failed(Transaction reverted)"
                  /\ get_transaction_status(i) = "Failed(Transaction reverted)"

C2_Witness ==
    \E i \in TxIds :
        /\ calls[i].wait = "ok" /\ calls[i].in_order
        /\ calls[i].sign = "ok" /\ calls[i].submit = "ok"
        /\ calls[i].receipt = "status0"
        /\ get_transaction_status(i) = "Failed(Transaction reverted)"

\* C3 (SpecTx): once cancel_transaction has returned for a request it found
\* pending, the status of the request is Cancelled, whatever sign_transaction,
\* submit_transaction or wait_for_confirmation calls were in flight.
C3_CancelIsFinal ==
    \A i \in TxIds :
        (calls[i].cancel = "ok" /\ calls[i].cancel_hit)
            => get_transaction_status(i) = "Cancelled"

StrategyOrder == <<"Conservative", "Standard", "Aggressive", "Emergency">>

\* C4 (SpecRec): for the same statistics, base fee, priority fee and max fee of the
\* recommendation are non-decreasing along Conservative, Standard, Aggressive,
\* Emergency, also when the ceilings clamp them.
C4_FeeMonotone ==
    \A k \in 1..3 :
        LET lo == rec_out[StrategyOrder[k]]
            hi == rec_out[StrategyOrder[k + 1]]
        IN  (lo # NoRec /\ hi # NoRec) =>
                /\ lo.base_fee <= hi.base_fee
                /\ lo.priority_fee <= hi.priority_fee
                /\ lo.max_fee <= hi.max_fee

C4_Witness ==
    /\ \A k \in 1..4 : rec_out[StrategyOrder[k]] # NoRec
    /\ rec_out["Emergency"].base_fee = max_base_fee_gwei
    /\ rec_out["Conservative"].base_fee < max_base_fee_gwei
    /\ rec_out["Conservative"].max_fee < rec_out["Standard"].max_fee

\* C5 (SpecPrice): five source prices of which four agree closely (1.00 .. 1.10)
\* and one lies far away (5.00) are reported with outlier_detected = true.
C5_OutlierFlagged ==
    ( /\ price_out # NoAggregate
      /\ Len(price_in) = 5
      /\ \E k \in 1..5 : /\ price_in[k] = 500
                         /\ \A j \in (1..5) \ {k} : price_in[j] <= 110 )
        => price_out.outlier_detected

\* C6 (SpecQueue): the attempt counter of an order never exceeds
\* max_retry_attempts; a Failed order has used all its attempts and carries the
\* error, and an order that has used them all without success is not left to be
\* retried: it is Failed, or waits only for its timeout.
C6_RetryCeiling ==
    \A i \in OrderIds :
        /\ orders[i].attempts <= max_retry_attempts
        /\ orders[i].status = "Failed" =>
              /\ orders[i].attempts = max_retry_attempts
              /\ orders[i].last_error = "error"
        /\ ( /\ orders[i].status = "Executing"
             /\ orders[i].attempts = max_retry_attempts
             /\ ~orders[i].inflight ) => Expired(orders[i])

C6_Witness ==
    \E i \in OrderIds :
        /\ orders[i].status = "Failed"
        /\ orders[i].attempts = max_retry_attempts
        /\ i \in completed_orders

C8_ConcurrencyLimit ==
    /\ Cardinality({i \in OrderIds : orders[i].status = "Executing"})
          <= max_concurrent_executions
    /\ execution_semaphore >= 0
    /\ execution_semaphore + Cardinality(active_orders) = max_concurrent_executions

C8_Witness ==
    /\ execution_semaphore = 0
    /\ \E i \in OrderIds, j \in OrderIds :
          /\ orders[i].status = "Executing"
          /\ j \in priority_queue
          /\ orders[j].status = "Pending"

ChainEdges ==
    {<<"None", "Pending">>, <<"Pending", "Queued">>, <<"Queued", "Executing">>}
        \cup ({"Executing"} \X TerminalStatus)

StatusChanges(edges) ==
    \A i \in OrderIds :
        /\ orders'[i].status # orders[i].status
              => <<orders[i].status, orders'[i].status>> \in edges
        /\ orders[i].status \in TerminalStatus
              => /\ i \notin priority_queue'
                 /\ i \notin active_orders'

\* C9, as claimed (SpecQueue): every change of an order's status is a step of
\* Pending -> Queued -> Executing -> {Completed, Failed, Timeout, Cancelled}, and a
\* terminal order is never changed or re-admitted.
C9_StatusChain == [][StatusChanges(ChainEdges)]_vars

\* C9, amended (SpecQueue): as claimed, except that cancel_order also takes an
\* order that is still Pending (waiting in the queue) or Queued to Cancelled.
C9_StatusChainWithCancel ==
    [][StatusChanges(ChainEdges \cup {<<"Pending", "Cancelled">>,
                                      <<"Queued", "Cancelled">>})]_vars

C9_Witness ==
    \E i \in OrderIds, j \in OrderIds :
        /\ orders[i].status = "Cancelled"
        /\ orders[i].attempts = 0
        /\ i \in completed_orders
        /\ orders[j].status = "Completed"

\* The congestion level the thresholds are claimed to give for the mean sum / n.
ClaimedCongestion(sum, n) ==
    IF sum < 50 * n THEN "Low"
    ELSE IF sum < congestion_threshold * n THEN "Medium"
    ELSE IF sum < 95 * n THEN "High"
    ELSE "Critical"

\* C10 (SpecGas): the congestion level of the statistics is Low for a mean
\* gas-used ratio r < 0.5, Medium for 0.5 <= r < congestion_threshold, High for
\* congestion_threshold <= r < 0.95 and Critical for r >= 0.95.
C10_CongestionLevels ==
    (current_stats # NoStats /\ \A u \in Updaters : update_calls[u].pc # "stats") =>
        current_stats.congestion_level =
            ClaimedCongestion(SumSeq(FieldOf(gas_history, "gas_used_ratio")),
                              Len(gas_history))

\* The sample of the example: base fee 30 gwei, priority fee 2 gwei, ratio 0.5.
SingleSample == [base_fee |-> 30, priority_fee |-> 2, gas_used_ratio |-> 50]

\* C11 (SpecGas): with the single sample (30 gwei, 2 gwei, 0.5) recorded, the
\* recommendation get_recommendation(Standard) returns has a base_fee, and hence
\* a max_fee, of at least the recorded base fee of 30 gwei.
C11_StandardFeeCoversBase ==
    ( /\ gas_history = <<DataPoint(SingleSample, 0)>>
      /\ NoUpdateInProgress
      /\ gas_calls.get = "idle"
      /\ gas_calls.returned # NoRec
      /\ gas_calls.returned.strategy = "Standard" ) =>
        /\ gas_calls.returned.base_fee >= SingleSample.base_fee
        /\ gas_calls.returned.max_fee >= SingleSample.base_fee

\* C17 (SpecGas): a recommendation returned by get_recommendation was computed
\* from statistics that include every sample whose update_gas_data call had
\* returned when the get_recommendation call began.
C17_FreshAfterUpdate ==
    (gas_calls.get = "idle" /\ gas_calls.returned # NoRec) =>
        \E k \in gas_calls.seen .. Len(gas_history) :
            /\ k >= 1
            /\ gas_calls.returned.stats = StatisticsOf(SubSeq(gas_history, 1, k))

\* C12 (SpecPriority): the opportunity with expected profit 0.20 and price impact
\* 0.01 is given order priority Emergency.
C12_EmergencyPriority ==
    ( /\ prio_in = [expected_profit |-> 20, price_impact |-> 1]
      /\ prio_out # "None" ) => prio_out = "Emergency"

\* C16 (SpecReady): an order with strategy Delayed(d) is reported ready exactly
\* when d has elapsed since its creation: not before, and at every time after,
\* for sub-second delays too.
C16_ReadyIffDelayElapsed ==
    ready_out # "None" =>
        (ready_out = "Ready" <=> ready_in.elapsed_ms >= ready_in.delay_ms)

\* The submit_order calls that have returned.
Returned == {i \in OrderIds : submit_pc[i] = "done"}

\* C13 (SpecQueue): once every submit_order call made so far has returned, with
\* nothing admitted or cancelled, get_metrics reports total_orders = n and
\* queue_size = n = the number of orders in the priority structure, n being the
\* number of calls, whatever the interleaving of their steps.
C13_SubmitCounts ==
    ( /\ \A i \in OrderIds : submit_pc[i] \in {"idle", "done"}
      /\ \A i \in Returned : orders[i].status = "Pending" ) =>
        /\ metrics.total_orders = Cardinality(Returned)
        /\ metrics.queue_size = Cardinality(Returned)
        /\ Cardinality(priority_queue) = Cardinality(Returned)

C13_Witness ==
    /\ Returned = OrderIds
    /\ \A i \in OrderIds : orders[i].status = "Pending"
    /\ metrics.total_orders = Cardinality(OrderIds)

\* C14 (SpecQueue): an order waiting in the queue can be cancelled (cancel_order
\* returns true), and the step that cancels it leaves get_order_status at
\* Cancelled and metrics.cancelled_orders larger by exactly one.
C14_CancelWaiting ==
    [][\A i \in OrderIds :
          /\ i \in priority_queue => Cancellable(i)
          /\ (i \in priority_queue /\ orders'[i].status = "Cancelled") =>
                /\ get_order_status(i)' = "Cancelled"
                /\ metrics'.cancelled_orders = metrics.cancelled_orders + 1]_vars

C14_Witness ==
    \E i \in OrderIds :
        /\ orders[i].status = "Cancelled"
        /\ ~orders[i].admitted
        /\ get_order_status(i) = "Cancelled"
        /\ metrics.cancelled_orders = 1

\* How many events of a sequence carry order id i.
EventsOf(seq, i) == Cardinality({k \in 1..Len(seq) : seq[k].order_id = i})

\* C15 (SpecEvents): every submit_order that has returned has sent exactly one
\* OrderQueued event with its order id, and none is lost: each is either already
\* received by the taker of the receiver or still waiting in the channel, the
\* events sent before the receiver was taken included.
C15_OneEventPerSubmit ==
    \A i \in OrderIds :
        EventsOf(received \o events, i) = IF i \in Returned THEN 1 ELSE 0

C15_Witness ==
    /\ event_receiver = "taken"
    /\ Len(received) = Cardinality(OrderIds)
    /\ \E k \in 1..Len(received) : received[k].before_take
    /\ \E k \in 1..Len(received) : ~received[k].before_take

\* The status kept for a request, in whichever map holds it.
StoredStatus(i) == get_transaction_status(i)

FinalTxStatus ==
    {"Confirmed", "Failed(Transaction reverted)", "Failed(No receipt received)"}

\* C18 (SpecTx): once a request's status is Confirmed or Failed, no step of any
\* lifecycle call changes it, a cancel_transaction that runs between
\* wait_for_confirmation's status update and its move to the archive included.
C18_ConfirmedIsFinal ==
    [][\A i \in TxIds :
          (StoredStatus(i) \in FinalTxStatus /\ StoredStatus(i)' # "None")
              => StoredStatus(i)' = StoredStatus(i)]_vars

\* Position of a status on Pending -> Preparing -> Signing -> Submitted ->
\* {Confirmed, Failed, Cancelled, Timeout}.
StatusRank(st) ==
    IF st \in {"None", "Pending"} THEN 0
    ELSE IF st = "Preparing" THEN 1
    ELSE IF st = "Signing" THEN 2
    ELSE IF st = "Submitted" THEN 3
    ELSE 4

\* C19 (SpecTx): a request's status only ever advances along the chain: no step
\* of a lifecycle call takes it to an earlier position (for instance from
\* Submitted back to Signing).
C19_StatusOnlyAdvances ==
    [][\A i \in TxIds :
          StoredStatus(i)' # "None"
              => StatusRank(StoredStatus(i)') >= StatusRank(StoredStatus(i))]_vars

\* C20 (SpecTx): from the moment prepare has stored a request, its id is held by
\* exactly one of the pending map and the completed archive, so that
\* get_transaction_status finds it.
C20_InExactlyOneMap ==
    \A i \in TxIds :
        calls[i].prepare = "ok" =>
            /\ (pending_transactions[i] # NoTx) # (completed_transactions[i] # NoTx)
            /\ get_transaction_status(i) # "None"

\* C21 (SpecGasHistory): whenever no update_gas_data call is in progress, the
\* statistics are those computed from the current contents of the history
\* buffer, and they are None only if no sample has ever been recorded, for
\* concurrent update_gas_data calls and for every retention window.
C21_StatsMatchHistory ==
    NoUpdateInProgress =>
        /\ gas_history # <<>> => current_stats = StatisticsOf(gas_history)
        /\ current_stats = NoStats => gas_calls.started = 0

\* The requests whose lifecycle ended with a status of S.
EndedWith(S) == {i \in TxIds : completed_transactions[i].status \in S}

\* C22 (SpecTx): after any sequence of confirmations (every lifecycle run in
\* order, no wait_for_confirmation in progress), total_transactions =
\* successful_transactions + failed_transactions, successful_transactions is the
\* number of requests that ended Confirmed, failed_transactions the number that
\* ended Failed, and success_rate = successful_transactions / total_transactions.
C22_MetricsCount ==
    (\A i \in TxIds : calls[i].in_order /\ calls[i].wait \in {"idle", "ok", "err"}) =>
        /\ tx_metrics.total_transactions
              = tx_metrics.successful_transactions + tx_metrics.failed_transactions
        /\ tx_metrics.successful_transactions = Cardinality(EndedWith({"Confirmed"}))
        /\ tx_metrics.failed_transactions
              = Cardinality(EndedWith(FinalTxStatus \ {"Confirmed"}))
        /\ tx_metrics.total_transactions > 0 =>
              tx_metrics.success_rate * tx_metrics.total_transactions
                  = 100 * tx_metrics.successful_transactions

\* C23 (SpecTx): a request in status Submitted for which wait_for_confirmation
\* gets no receipt ends in status Timeout.
C23_NoReceiptTimesOut ==
    \A i \in TxIds :
        (calls[i].in_order /\ calls[i].wait = "ok" /\ calls[i].receipt = "none")
            => StoredStatus(i) = "Timeout"

\* The value of the request's tx_hash, in whichever map holds the request.
StoredHash(i) ==
    IF pending_transactions[i] # NoTx THEN pending_transactions[i].tx_hash
    ELSE completed_transactions[i].tx_hash

\* C24 (SpecTx): in every reachable state, a request with status Submitted has
\* its tx_hash set: the status is reached only after submit_transaction has
\* broadcast the payload and recorded the hash.
C24_SubmittedHasHash ==
    \A i \in TxIds : StoredStatus(i) = "Submitted" => StoredHash(i)

\* The variants of TransactionStatus other than Failed(reason).
NotFailed ==
    {"None", "Pending", "Preparing", "Signing", "Submitted", "Confirmed", "Cancelled",
     "Timeout"}

\* C25 (SpecTx): when the wallet fails to sign a request in status Signing, or
\* the broadcast of a request in status Submitted is rejected, the call returns
\* with the request's status Failed(reason); the status does not remain Signing
\* or Submitted.
C25_FailureRecorded ==
    [][\A i \in TxIds :
          \/ /\ calls[i].sign = "signing" /\ calls[i].sign' = "err"
             /\ StoredStatus(i) = "Signing"
          \/ /\ calls[i].submit = "idle" /\ calls[i].submit' = "err"
             /\ StoredStatus(i) = "Submitted"
          => StoredStatus(i)' \notin NotFailed]_vars

\* C26 (SpecTx): submit_transaction sends the payload to the network only when
\* the request is in the pending map at that moment; for a completed or
\* cancelled request it broadcasts nothing and records no hash.
C26_BroadcastOnlyPending ==
    [][\A i \in TxIds :
          /\ (calls[i].submit = "idle" /\ calls[i].submit' = "sent")
                => pending_transactions[i] # NoTx
          /\ (calls[i].submit = "sent" /\ pending_transactions[i] = NoTx)
                => StoredHash(i)' = StoredHash(i)]_vars

\* C27 (SpecFeed): when every enabled source fails for a token, update_token_price
\* returns an error and leaves the cache, the history and the alert log as they
\* are; start_monitoring counts exactly one failed update for it and goes on with
\* the next token or the next interval; it stops only on the shutdown signal.
C27_AllSourcesFail ==
    [][/\ (monitor.pc = "apply" /\ monitor.price_data_vec = <<>> /\ monitor.pc' # "apply")
            => /\ monitor.result' = "Err"
               /\ UNCHANGED <<price_cache, price_history, alerts>>
       /\ (monitor.pc = "count" /\ monitor.result = "Err" /\ monitor.pc' # "count")
            => /\ feed_metrics.failed_updates' = feed_metrics.failed_updates + 1
               /\ feed_metrics.total_updates' = feed_metrics.total_updates + 1
               /\ feed_metrics.successful_updates' = feed_metrics.successful_updates
               /\ IF monitor.index < Len(target_tokens)
                  THEN monitor.pc' = "fetch" /\ monitor.index' = monitor.index + 1
                  ELSE monitor.pc' = "metrics"
       /\ (monitor.pc = "metrics" /\ monitor.pc' # "metrics") => monitor.pc' = "check"
       /\ (monitor.pc # "stopped" /\ monitor.pc' = "stopped") => shutdown_signal]_vars

\* The update of the first token failed, the one of the second succeeded, and
\* the task is back at the loop head for the next interval.
C27_Witness ==
    /\ feed_metrics.failed_updates = 1 /\ feed_metrics.successful_updates = 1
    /\ price_cache[target_tokens[1]] = NoCached
    /\ price_cache[target_tokens[2]] # NoCached
    /\ monitor.pc = "check" /\ monitor.rounds = 1

\* The alerts of one of the types the log gained in a step.
Gained(types) ==
    {k \in 1..Len(alerts') : /\ alerts'[k].arrival > monitor.alerts_appended
                             /\ alerts'[k].entry.alert_type \in types}

\* C28 (SpecFeed): the price and volume alerts of a successful update of a token
\* compare the new aggregated price with the one cached for that same token
\* before the update, which the update then replaces: a first update raises no
\* PriceSpike, PriceDrop or VolumeSpike alert, a later one raises them exactly
\* when the change from the token's previous aggregate exceeds the threshold, and
\* no other token's cached price is read or changed.
C28_AlertsAgainstPrevious ==
    [][(monitor.pc = "apply" /\ monitor.price_data_vec # <<>> /\ monitor.pc' = "count") =>
          LET token == target_tokens[monitor.index]
              old == price_cache[token]
              new == price_cache'[token]
          IN  /\ new = aggregate_prices(monitor.price_data_vec)
              /\ \A other \in Tokens \ {token} : price_cache'[other] = price_cache[other]
              /\ \A k \in Gained({"PriceSpike", "PriceDrop"}) :
                     /\ old # NoCached
                     /\ alerts'[k].entry.token_address = token
                     /\ alerts'[k].entry.old_price = old.price_usd
                     /\ alerts'[k].entry.new_price = new.price_usd
                     /\ (alerts'[k].entry.alert_type = "PriceSpike")
                            = Greater(new.price_usd, old.price_usd)
              /\ \A k \in Gained({"VolumeSpike"}) :
                     /\ old # NoCached
                     /\ alerts'[k].entry.token_address = token
                     /\ alerts'[k].entry.old_price = old.volume_24h
                     /\ alerts'[k].entry.new_price = new.volume_24h
              /\ (Gained({"PriceSpike", "PriceDrop"}) # {})
                     = (/\ old # NoCached
                        /\ ChangeExceeds(new.price_usd, old.price_usd, price_change_percent))
              /\ (Gained({"VolumeSpike"}) # {})
                     = (/\ old # NoCached
                        /\ ChangeExceeds(new.volume_24h, old.volume_24h,
                                         volume_spike_percent))]_vars

\* A price alert is in the log whose old price is not the price cached for the
\* other token.
C28_Witness ==
    \E k \in 1..Len(alerts) :
        /\ alerts[k].entry.alert_type \in {"PriceSpike", "PriceDrop"}
        /\ \A other \in Tokens \ {alerts[k].entry.token_address} :
               /\ price_cache[other] # NoCached
               /\ price_cache[other].price_usd # alerts[k].entry.old_price

\* Is the sequence the newest entries, at most n of them, out of the appended
\* ones, in order of arrival?
NewestInOrder(store, appended, n) ==
    /\ Len(store) = Min(appended, n)
    /\ \A k \in 1..Len(store) : store[k].arrival = appended - Len(store) + k

\* C29 (SpecFeed): after any sequence of updates the alert log holds at most
\* MaxAlertsKept alerts and each token's history at most MaxQuotesKept quotes,
\* always the most recently appended ones in order of arrival, and
\* get_recent_alerts(n) returns the min(n, log size) newest alerts, newest first.
C29_BoundedLogs ==
    /\ NewestInOrder(alerts, monitor.alerts_appended, MaxAlertsKept)
    /\ \A t \in Tokens :
           NewestInOrder(price_history[t], monitor.quotes_appended[t], MaxQuotesKept)
    /\ \A n \in 0..(MaxAlertsKept + 1) :
           LET recent == get_recent_alerts(n)
           IN  /\ Len(recent) = Min(n, Len(alerts))
               /\ \A k \in 1..Len(recent) :
                      \E j \in 1..Len(alerts) :
                          /\ alerts[j].arrival = monitor.alerts_appended - k + 1
                          /\ alerts[j].entry = recent[k]

\* Both the alert log and a history have dropped entries.
C29_Witness ==
    /\ monitor.alerts_appended > MaxAlertsKept
    /\ Len(alerts) = MaxAlertsKept
    /\ \E t \in Tokens : /\ monitor.quotes_appended[t] > MaxQuotesKept
                          /\ Len(price_history[t]) = MaxQuotesKept

\* C30 (SpecFetch): fetch_price_from_source calls the source at most
\* max_retry_attempts times; it returns the first quote it gets, with no further
\* attempt; it returns an error after max_retry_attempts failures in a row; it
\* sleeps between two attempts and not after the last; and it always returns,
\* for max_retry_attempts = 0 too.
C30_FetchRetries ==
    /\ [](/\ fetch.calls <= fetch.max_retry_attempts
          /\ fetch.result = "Ok" => (fetch.pc = "done" /\ fetch.attempts = fetch.calls - 1)
          /\ fetch.result = "Err" => /\ fetch.pc = "done"
                                     /\ fetch.attempts = fetch.max_retry_attempts
                                     /\ fetch.calls = fetch.max_retry_attempts
          /\ fetch.pc = "done" => /\ fetch.result # "None"
                                  /\ fetch.last # "sleep"
                                  /\ fetch.sleeps = IF fetch.calls = 0 THEN 0
                                                    ELSE fetch.calls - 1)
    /\ <>(fetch.pc = "done")

\* The call has returned an error after retrying.
C30_Witness ==
    /\ fetch.pc = "done" /\ fetch.result = "Err"
    /\ fetch.calls >= 2 /\ fetch.sleeps = fetch.calls - 1

\* Is the z-score of the k-th price, its distance from the mean S / n divided by
\* the sample standard deviation, above the threshold?  (Both sides squared.)
ZScoreExceeds(prices, k, threshold) ==
    LET n == Len(prices)
        S == SumSeq(prices)
        sq(x) == x * x
        squares == SumSeq([i \in 1..n |-> sq(n * prices[i] - S)])
    IN  sq(n * prices[k] - S) * (n - 1) > sq(threshold) * squares

C32_RecommendationWithinLimits ==
    \A s \in Strategies :
        rec_out[s] # NoRec =>
            /\ rec_out[s].base_fee <= max_base_fee_gwei
            /\ rec_out[s].priority_fee <= max_priority_fee_gwei
            /\ rec_out[s].max_fee = rec_out[s].base_fee + rec_out[s].priority_fee
            /\ rec_out[s].confidence >= 0
            /\ rec_out[s].confidence <= 10000

\* A recommendation with both fees at their limits, under high volatility.
C32_Witness ==
    \E s \in Strategies :
        /\ rec_out[s] # NoRec
        /\ rec_out[s].base_fee = max_base_fee_gwei
        /\ rec_out[s].priority_fee = max_priority_fee_gwei
        /\ rec_stats.avg_base_fee > max_base_fee_gwei
        /\ rec_stats.volatility_sq = 10000


C34_EarlierNeverLower ==
    \A a \in OrderIds, b \in OrderIds :
        ( /\ orders[a] # NoOrder
          /\ orders[b] # NoOrder
          /\ orders[a].priority = orders[b].priority
          /\ orders[a].expected_profit = orders[b].expected_profit
          /\ orders[a].created_at < orders[b].created_at ) =>
            execution_score(orders[a]) >= execution_score(orders[b])

HeapOrMaps == {"priority_queue", "active_orders", "completed_orders"}

\* C35 (SpecLocks): no call of submit_order, get_order_status, get_metrics,
\* take_event_receiver or shutdown holds more than one of the locks of the
\* heap, the active-order map and the completed-order map at a time.
C35_OneStructureLockAtATime ==
    \A t \in LockTasks :
        Cardinality({l \in HeapOrMaps : Holds(l, t)}) <= 1

C35_Witness ==
    /\ At("get_order_status", "completed_orders")
    /\ Holds("completed_orders", "get_order_status")
    /\ \E t \in SubmitTasks : Holds("metrics", t) /\ Holds("priority_queue", t)

\* C36 (SpecLocks): whatever the interleaving, every one of the concurrent
\* calls returns.
C36_EveryCallReturns ==
    <>(\A t \in LockTasks : At(t, "done"))

C36_Witness ==
    \E t \in SubmitTasks, u \in SubmitTasks :
        /\ Holds("metrics", t)
        /\ At(t, "len")
        /\ ~Holds("priority_queue", t)
        /\ rwlocks["priority_queue"].writer = u

\* C37 (SpecFeedLoop): once shutdown() has set the signal while
\* start_monitoring is running, the loop returns Ok; once it has returned, no
\* pass of the loop is begun; the signal is never reset; and a loop that finds
\* the signal set at its first check returns without an update.
C37_ShutdownStopsLoop ==
    /\ (shutdown_signal /\ monitor.pc # "panicked") ~> (monitor.pc = "stopped")
    /\ [](monitor.pc = "stopped" => [](monitor.pc = "stopped"))
    /\ [](shutdown_signal => []shutdown_signal)
    /\ []((monitor.pc = "stopped" /\ monitor.rounds = 0)
              => feed_metrics.total_updates = 0)

\* C40 (SpecFeedLoop): update_metrics is never reached with total_updates = 0,
\* no pass of the loop ends in a panic or in a division by zero, and
\* total_updates = successful_updates + failed_updates whenever a pass has ended.
C40_NoUnderflow ==
    /\ monitor.pc = "metrics" => feed_metrics.total_updates > 0
    /\ monitor.pc # "panicked"
    /\ feed_metrics.cache_hit_rate # NaN
    /\ monitor.pc = "check" =>
           feed_metrics.total_updates
               = feed_metrics.successful_updates + feed_metrics.failed_updates

\* C38 (SpecDex): reconnect_attempts never exceeds max_reconnect_attempts and
\* is 0 while a subscription is being monitored; as long as no subscription
\* has been started at most max_reconnect_attempts + 1 connection attempts are
\* made, and start_monitoring then returns the Network error, after exactly
\* that many attempts.
C38_ReconnectsBounded ==
    /\ [](dex.reconnect_attempts <= dex.max_reconnect_attempts)
    /\ [](dex.pc = "monitoring" => dex.reconnect_attempts = 0)
    /\ [](dex.subscriptions = 0 =>
              /\ dex.attempts <= dex.max_reconnect_attempts + 1
              /\ dex.pc = "returned" =>
                     /\ dex.result = "Network"
                     /\ dex.attempts = dex.max_reconnect_attempts + 1)
    /\ <>(dex.pc = "returned" \/ dex.subscriptions > 0)

C38_Witness ==
    /\ dex.pc = "returned"
    /\ dex.result = "Network"
    /\ dex.subscriptions = 0
    /\ dex.max_reconnect_attempts = MaxReconnects
    /\ dex.attempts = MaxReconnects + 1

\* C39 (SpecDex): every read lock the opportunity processing task awaits on
\* the DEX monitor is granted.
C39_ReadEventuallyGranted ==
    (processing.pc = "scan") ~> DexHolds("processing_task")

====
